---- MODULE Spec2Model ----
(***************************************************************************)
(* Confidential data hub: the KBS handshake engine (kbs_protocol           *)
(* Handshaker), the KBS resource client (kbs-client Client), the secret    *)
(* unsealer, the annotation-packet unwrapper and the DataHub facade.       *)
(*                                                                         *)
(* The specifications share the Handshaker state:                          *)
(*   SpecHs   a single owner drives Handshaker::handshake / Handshaker::get *)
(*            (the methods take &mut self, so calls are sequential);        *)
(*   Spec     a DataHub is started and RPC tasks call its operations        *)
(*            concurrently, suspending at every await;                      *)
(*   SpecLib  the unsealer and the packet unwrapper are called on a backend *)
(*            of the caller's choice;                                       *)
(*   SpecSeal an envelope is sealed and the sealed envelope is unsealed.    *)
(***************************************************************************)
EXTENDS Integers, Sequences, FiniteSets, TLC

VARIABLES
    tee_key,        \* Handshaker.tee_key: 0 is None, k > 0 is Some(key pair k)
    kbs_host_url,   \* Handshaker.kbs_host_url: NoHost is None
    keyGen,         \* number of TeeKeyPair::new() that succeeded so far
    hs,             \* activation of Handshaker::handshake
    authed,         \* history: hosts whose /auth answered with a Challenge
    attested,       \* history: hosts to which an Attestation was POSTed
    call,           \* activation of the owner's call (SpecHs)
    hub,            \* DataHub: its status and Client.kbs_host_url
    kbsLock,        \* Mutex<KbsClient>: 0 is free, t is held by task t
    kms_manager,    \* DataHub.kms_manager: provider name -> driver
    kmsLock,        \* Mutex<dyn KMS> of every driver: 0 or the holding task
    task            \* the RPC tasks

hsVars == <<tee_key, kbs_host_url, keyGen, hs, authed, attested>>
taskVars == <<kbsLock, kms_manager, kmsLock, task>>
hubVars == <<hub, kbsLock, kms_manager, kmsLock, task>>
vars == <<tee_key, kbs_host_url, keyGen, hs, authed, attested, call,
          hub, kbsLock, kms_manager, kmsLock, task>>

\* ---------------------------------------------------------------- bounds
MaxKeys == 3        \* key pairs generated in one run
NumTasks == 2       \* concurrent RPC tasks

\* ------------------------------------------------------------- constants
Hosts == {"kbsA", "kbsB"}
NoHost == "none"
NoKey == 0
Paths == {"default/key/1", "default/key/2"}
Statuses == {"200", "401", "404", "500", "neterr"}
Tasks == 1..NumTasks
Drivers == {"ali", "aws"}

\* ------------------------------------------------------- KBS responses
\* A 200 body of a resource GET, as far as decrypt_response looks at it.
Responses ==
    [read : {TRUE},                  \* the body arrived
     json : BOOLEAN,                 \* body parses as kbs_types::Response
     hdr : BOOLEAN,                  \* protected parses as ProtectedHeader
     alg : {"RSA1_5", "RSA-OAEP"},   \* protected.alg
     keyB64 : BOOLEAN,               \* encrypted_key is base64url
     wrappedTo : 1..MaxKeys,         \* key pair the symmetric key is wrapped to
     b64 : BOOLEAN,                  \* iv and ciphertext are base64url
     aead : BOOLEAN]                 \* payload decrypts under the symmetric key

\* A body that is not read, or whose read fails, and the text of an error.
NoBody == [read |-> FALSE, json |-> FALSE, hdr |-> FALSE, alg |-> "RSA1_5",
           keyB64 |-> FALSE, wrappedTo |-> 1, b64 |-> FALSE, aead |-> FALSE]
ErrorText == [NoBody EXCEPT !.read = TRUE]

\* What a GET can be answered with: the 200 arm reads a Response, the 401
\* and 404 arms read nothing, the catch-all arm awaits res.text().
BodiesOf(status) ==
    CASE status = "200" -> Responses
      [] status \in {"401", "404", "neterr"} -> {NoBody}
      [] OTHER -> {NoBody, ErrorText}

\* The catch-all arm: `bail!(.., res.text().await?)`.
ServerError(r) == IF r.read THEN "server_error" ELSE "err_body"

\* What one run of decrypt_response leaves behind: its result, the key
\* operations it made in order, the protected.alg it read ("none": the header
\* was not read) and the symkey buffer at return: "none" no symmetric key was
\* unwrapped, "zeroized" it was dropped inside Zeroizing, "dropped" the plain
\* Vec<u8> was freed with the key still in it.
Ran(res, ops, alg, symkey) ==
    [res |-> res, ops |-> ops, alg |-> alg, symkey |-> symkey]

\* (mutant) the check of protected.alg is left out.
decrypt_response_nogate(tk, r) ==
    IF ~r.hdr THEN Ran("err_header", <<>>, "none", "none")
    ELSE IF ~r.keyB64 THEN Ran("err_base64", <<>>, r.alg, "none")
    ELSE IF tk = NoKey THEN Ran("err_no_handshake", <<>>, r.alg, "none")
    ELSE IF r.wrappedTo # tk THEN Ran("err_rsa", <<"rsa_unwrap">>, r.alg, "none")
    ELSE IF ~r.b64 THEN Ran("err_base64", <<"rsa_unwrap">>, r.alg, "dropped")
    ELSE IF ~r.aead
         THEN Ran("err_decrypt", <<"rsa_unwrap", "decrypt">>, r.alg, "zeroized")
    ELSE Ran("ok", <<"rsa_unwrap", "decrypt">>, r.alg, "zeroized")

\* Handshaker::decrypt_response, on the stored key pair tk.  symkey is a plain
\* Vec<u8> until it is moved into Zeroizing::new for crypto::decrypt.
decrypt_response(tk, r) ==
    IF ~r.hdr THEN Ran("err_header", <<>>, "none", "none")
    ELSE IF r.alg # "RSA1_5" THEN Ran("err_alg", <<>>, r.alg, "none")
    ELSE IF ~r.keyB64 THEN Ran("err_base64", <<>>, r.alg, "none")
    ELSE IF tk = NoKey THEN Ran("err_no_handshake", <<>>, r.alg, "none")
    ELSE IF r.wrappedTo # tk THEN Ran("err_rsa", <<"rsa_unwrap">>, r.alg, "none")
    ELSE IF ~r.b64 THEN Ran("err_base64", <<"rsa_unwrap">>, r.alg, "dropped")
    ELSE IF ~r.aead
         THEN Ran("err_decrypt", <<"rsa_unwrap", "decrypt">>, r.alg, "zeroized")
    ELSE Ran("ok", <<"rsa_unwrap", "decrypt">>, r.alg, "zeroized")

\* A call that did not get to decrypt_response.
NotRun(res) == Ran(res, <<>>, "none", "none")

\* res.json::<Response>().await? followed by decrypt_response
ReadBody(tk, r) == IF ~r.json THEN NotRun("err_json") ELSE decrypt_response(tk, r)

\* ------------------------------------------------ Handshaker::handshake
\* (mutant) Client::new drops the `?` on the handshake.
ClientNewResult_ignored(res) == "up"

\* Client::new: the client exists only when its handshake returned Ok.
ClientNewResult(res) == IF res = "ok" THEN "up" ELSE "failed"

\* host and keypair are the locals kbs_host_url and tee_keypair; challenged
\* and attest record what the KBS has answered to this handshake so far.
HsIdle == [pc |-> "idle", host |-> NoHost, keypair |-> NoKey, by |-> "none",
           challenged |-> FALSE, attest |-> "none", res |-> "none",
           nonce |-> "none", ehd |-> "none", sent |-> "none"]

\* The nonces a Challenge can carry.
Nonces == {"nonceA", "nonceB"}

\* TeeKeyPair::export_pubkey of key pair k: the base64 of the modulus and of
\* the public exponent, which RsaPrivateKey::new leaves at 65537.
export_pubkey(k) ==
    [alg |-> "RSA1_5", k_mod |-> [b64std |-> <<"n", k>>],
     k_exp |-> [b64std |-> <<"e", 65537>>]]

\* Sha384 over the updates in order: the digest of their concatenation.
Sha384(updates) == [sha384 |-> updates]

\* nonce.as_bytes()
NonceBytes(nonce) == [utf8 |-> nonce]

\* (mutant) the key material is hashed before the nonce.
generate_evidence_reordered(nonce, materials) ==
    [b64std |-> Sha384(materials \o <<NonceBytes(nonce)>>)]

\* generate_evidence up to its await: the ehd passed to get_evidence.
generate_evidence(nonce, materials) ==
    [b64std |-> Sha384(<<NonceBytes(nonce)>> \o materials)]

\* First await of handshake: POST <host>/kbs/v0/auth is sent.
HsBegin(h, by) ==
    hs' = [HsIdle EXCEPT !.pc = "auth", !.host = h, !.by = by]

\* (mutant) the GET after the re-handshake may re-authenticate again.
Finish_keepretry(res, status) ==
    /\ hs' = [hs EXCEPT !.pc = "idle", !.res = res, !.attest = status,
                        !.challenged = @ \/ res = "err_keygen",
                        !.nonce = "none", !.ehd = "none", !.sent = "none"]
    /\ IF hs.by = "new"
       THEN /\ hub' = [hub EXCEPT !.status = ClientNewResult(res)]
            /\ call' = call
       ELSE /\ hub' = hub
            /\ IF hs.by = "get" /\ res = "ok"
               THEN call' = [call EXCEPT !.pc = "get", !.gets = @ + 1,
                                         !.host2 = kbs_host_url']
               ELSE call' = [call EXCEPT !.pc = "done", !.res = res]

\* The caller of handshake resumes with its result.
\*   direct: the owner called handshake itself;
\*   get:    Handshaker::get re-authenticates after a 401 and, on Ok, calls
\*           get(resource_url, false), whose first step sends the GET;
\*   new:    Client::new, called by DataHub::start: `handshake(..).await?`.
Finish(res, status) ==
    /\ hs' = [hs EXCEPT !.pc = "idle", !.res = res, !.attest = status,
                        !.challenged = @ \/ res = "err_keygen",
                        !.nonce = "none", !.ehd = "none", !.sent = "none"]
    /\ IF hs.by = "new"
       THEN /\ hub' = [hub EXCEPT !.status = ClientNewResult(res)]
            /\ call' = call
       ELSE /\ hub' = hub
            /\ IF hs.by = "get" /\ res = "ok"
               THEN call' = [call EXCEPT !.pc = "get", !.retry = FALSE,
                                         !.gets = @ + 1,
                                         !.host2 = kbs_host_url']
               ELSE call' = [call EXCEPT !.pc = "done", !.res = res]

\* /auth answered (or the send / the Challenge parse failed); then
\* TeeKeyPair::new() and the evidence request to the attestation agent.
HsAuthResp(ok, keyOk, nonce) ==
    /\ hs.pc = "auth"
    /\ UNCHANGED taskVars
    /\ IF ~ok THEN
            /\ Finish("err_auth", "none")
            /\ UNCHANGED <<tee_key, kbs_host_url, keyGen, authed, attested>>
       ELSE IF ~keyOk THEN
            /\ Finish("err_keygen", "none")
            /\ authed' = authed \cup {hs.host}
            /\ UNCHANGED <<tee_key, kbs_host_url, keyGen, attested>>
       ELSE /\ keyGen < MaxKeys
            /\ keyGen' = keyGen + 1
            /\ LET tee_pubkey == export_pubkey(keyGen + 1) IN
               hs' = [hs EXCEPT !.pc = "evidence", !.keypair = keyGen + 1,
                        !.challenged = TRUE, !.nonce = nonce,
                        !.ehd = generate_evidence(nonce,
                                  <<tee_pubkey.k_mod, tee_pubkey.k_exp>>)]
            /\ authed' = authed \cup {hs.host}
            /\ UNCHANGED <<tee_key, kbs_host_url, attested, call, hub>>

\* get_evidence answered; on success POST <host>/kbs/v0/attest is sent.
HsEvidenceResp(ok) ==
    /\ hs.pc = "evidence"
    /\ UNCHANGED taskVars
    /\ IF ~ok THEN
            /\ Finish("err_evidence", "none")
            /\ UNCHANGED <<tee_key, kbs_host_url, keyGen, authed, attested>>
       ELSE /\ hs' = [hs EXCEPT !.pc = "attest",
                                !.sent = export_pubkey(hs.keypair)]
            /\ attested' = attested \cup {hs.host}
            /\ UNCHANGED <<tee_key, kbs_host_url, keyGen, authed, call, hub>>

\* (mutant) the assignments are made before the match on the status.
RecordSession_any(status) ==
    IF status # "neterr"
    THEN /\ tee_key' = hs.keypair
         /\ kbs_host_url' = hs.host
    ELSE UNCHANGED <<tee_key, kbs_host_url>>

\* The two assignments of the StatusCode::OK arm.
RecordSession(status) ==
    IF status = "200"
    THEN /\ tee_key' = hs.keypair
         /\ kbs_host_url' = hs.host
    ELSE UNCHANGED <<tee_key, kbs_host_url>>

\* /attest answered (or the send failed): match attest_response.status().
\* The OK arm makes its two assignments; every arm then awaits the body.
HsAttestResp(status) ==
    /\ hs.pc = "attest"
    /\ RecordSession(status)
    /\ IF status = "neterr"
       THEN Finish("err_send", status)
       ELSE /\ hs' = [hs EXCEPT !.pc = "body", !.attest = status]
            /\ UNCHANGED <<call, hub>>
    /\ UNCHANGED <<keyGen, authed, attested>>
    /\ UNCHANGED taskVars

\* The body of the /attest answer is read: the token of a 200, the
\* ErrorInformation of a 401, the text of any other status; `?` returns
\* the error of a read or a parse that fails.
HsAttestBody(bodyOk) ==
    /\ hs.pc = "body"
    /\ UNCHANGED <<tee_key, kbs_host_url, keyGen, authed, attested>>
    /\ Finish(CASE hs.attest = "200" -> IF bodyOk THEN "ok" ELSE "err_token"
                [] hs.attest = "401" ->
                        IF bodyOk THEN "unauthorized" ELSE "err_error_info"
                [] OTHER -> IF bodyOk THEN "server_error" ELSE "err_body",
              hs.attest)
    /\ UNCHANGED taskVars

\* The future of the running call is dropped at its current await.
Cancel ==
    /\ hs.pc \in {"auth", "evidence", "attest", "body"}
    /\ UNCHANGED <<tee_key, kbs_host_url, keyGen, authed, attested>>
    /\ Finish("cancelled", hs.attest)
    /\ UNCHANGED taskVars

\* ------------------------------------------------------------ RPC tasks
\* A task is one call of a public operation.  req is its argument, via the
\* backend it was given or routed to ("kbs" or a driver name), cont the
\* procedure that awaits the backend; the rest records what the call did:
\* log the backend and crypto operations in order, gets the GETs it sent,
\* first the status of its first GET, fetch what Client::get_resource
\* returned, shakes the handshakes it started, client the storage client
\* it used.
\* For Envelope::seal_with_*: out is the Envelope returned, kek the key the
\* KBS served, zero the state of the symmetric_key array ("n/a": the call has
\* none); for the unseal of a sealed envelope plain is the result.
NoReq == [op |-> "none"]
NoEnvelope == [key_id |-> "none"]
TaskIdle == [pc |-> "idle", req |-> NoReq, via |-> "none", cont |-> "none",
             path |-> "", gets |-> 0, first |-> "none", shakes |-> 0,
             log |-> <<>>, res |-> "none", fetch |-> "none",
             client |-> 0, out |-> NoEnvelope, kek |-> "none", plain |-> "none",
             zero |-> "n/a"]

\* ------------------------------------------------------ the owner's calls
\* Besides the frame of the call (op, path, retry) the record counts what the
\* call has done so far: GETs sent and the hosts they went to, handshakes
\* started and their host, and the status of its first GET.
CallIdle == [pc |-> "idle", op |-> "none", path |-> "", retry |-> FALSE,
             gets |-> 0, host1 |-> NoHost, host2 |-> NoHost,
             shakes |-> 0, shakeHost |-> NoHost, first |-> "none",
             last |-> "none", ops |-> <<>>, alg |-> "none", symkey |-> "none",
             res |-> "none"]

\* handshake(kbs_host_url)
CallHandshake(h) ==
    /\ call.pc = "idle"
    /\ HsBegin(h, "direct")
    /\ call' = [CallIdle EXCEPT !.pc = "hs", !.op = "handshake"]
    /\ UNCHANGED <<tee_key, kbs_host_url, keyGen, authed, attested>>
    /\ UNCHANGED hubVars

\* (mutant) get falls back to a configured host instead of failing.
get_unchecked(p, retry) ==
    /\ call.pc = "idle"
    /\ call' = [CallIdle EXCEPT !.pc = "get", !.op = "get", !.path = p,
                                !.retry = retry, !.gets = 1,
                                !.host1 = IF kbs_host_url = NoHost
                                          THEN "kbsA" ELSE kbs_host_url]
    /\ UNCHANGED hsVars
    /\ UNCHANGED hubVars

\* get(resource_url, retry): the host is read from self, then the GET is sent.
get(p, retry) ==
    /\ call.pc = "idle"
    /\ IF kbs_host_url = NoHost THEN
            /\ call' = [CallIdle EXCEPT !.pc = "done", !.op = "get", !.path = p,
                                        !.retry = retry, !.res = "err_no_handshake"]
       ELSE call' = [CallIdle EXCEPT !.pc = "get", !.op = "get", !.path = p,
                                     !.retry = retry, !.gets = 1,
                                     !.host1 = kbs_host_url]
    /\ UNCHANGED hsVars
    /\ UNCHANGED hubVars

\* (mutant) every status but 200 is answered by a re-handshake.
Retries_any(status, retry) == status \notin {"200", "neterr"} /\ retry

\* The UNAUTHORIZED arm of Handshaker::get goes on to handshake when retry
\* is set.
Retries(status, retry) == status = "401" /\ retry

\* match res.status() of Handshaker::get
GetResp(status, r) ==
    /\ call.pc = "get"
    /\ LET c == [call EXCEPT !.first = IF @ = "none" THEN status ELSE @,
                             !.last = status]
           run == CASE status = "200" -> ReadBody(tee_key, r)
                    [] status = "401" -> NotRun("unauthorized")
                    [] status = "404" -> NotRun("not_found")
                    [] status = "neterr" -> NotRun("err_send")
                    [] OTHER -> NotRun(ServerError(r)) IN
       IF Retries(status, call.retry) THEN
            /\ HsBegin(call.host1, "get")
            /\ call' = [c EXCEPT !.pc = "hs", !.shakes = @ + 1,
                                  !.shakeHost = call.host1]
       ELSE /\ call' = [c EXCEPT !.pc = "done", !.res = run.res,
                                  !.ops = run.ops, !.alg = run.alg,
                                  !.symkey = run.symkey]
            /\ UNCHANGED hs
    /\ UNCHANGED <<tee_key, kbs_host_url, keyGen, authed, attested>>
    /\ UNCHANGED hubVars

\* The call has returned to the owner.
CallReturn ==
    /\ call.pc = "done"
    /\ call' = CallIdle
    /\ UNCHANGED hsVars
    /\ UNCHANGED hubVars

\* ---------------------------------------------------------- SpecHs
EmptyMap == [n \in {} |-> "none"]

\* StorageManager::default(): no client; made counts the clients built.
NoClients == [clients |-> EmptyMap, made |-> 0]

\* The DataHub before start / as DataHub::new() leaves it.
HubDown == [status |-> "down", host |-> NoHost, storage_mgr |-> NoClients]

\* Handshaker::new(): no key pair, no host.
InitHs ==
    /\ tee_key = NoKey
    /\ kbs_host_url = NoHost
    /\ keyGen = 0
    /\ hs = HsIdle
    /\ authed = {}
    /\ attested = {}
    /\ call = CallIdle
    /\ hub = HubDown
    /\ kbsLock = 0
    /\ kms_manager = EmptyMap
    /\ kmsLock = [d \in Drivers |-> 0]
    /\ task = [t \in Tasks |-> TaskIdle]

NextHs ==
    \/ \E h \in Hosts : CallHandshake(h)
    \/ \E p \in Paths, retry \in BOOLEAN : get(p, retry)
    \/ \E s \in Statuses : \E r \in BodiesOf(s) : GetResp(s, r)
    \/ \E ok \in BOOLEAN, keyOk \in BOOLEAN, nonce \in Nonces :
            HsAuthResp(ok, keyOk, nonce)
    \/ \E ok \in BOOLEAN : HsEvidenceResp(ok)
    \/ \E s \in Statuses : HsAttestResp(s)
    \/ \E bodyOk \in BOOLEAN : HsAttestBody(bodyOk)
    \/ Cancel
    \/ CallReturn

SpecHs == InitHs /\ [][NextHs]_vars

\* ------------------------------------------------------- request inputs
Providers == {"kbs", "KBS", "ali"}
Ids == {"kbs:///default/key/1", "uuid00111"}
NoPath == ""

\* ResourceUri::try_from(&str) followed by resource_path()
ResourceUri(id) ==
    CASE id = "kbs:///default/key/1" -> "default/key/1"
      [] id = "kbs:///default/key/2" -> "default/key/2"
      [] OTHER -> NoPath

\* Secret: provider, the content tag and the content.  annIv: annotations
\* holds "iv".  bad names the content defects: "enc_key_b64" encrypted_key is
\* not base64, "ann_iv_b64" annotations["iv"] is not, "dek" the DEK does not
\* unwrap, "iv_b64" / "data_b64" iv / encrypted_data are not base64,
\* "decrypt" the data does not decrypt.
Secret(provider, type, id, annIv, bad) ==
    [op |-> "unseal", provider |-> provider, type |-> type, id |-> id,
     v2 |-> FALSE, iv |-> FALSE, wt |-> FALSE, annIv |-> annIv, bad |-> bad]

\* Annotation packet as JSON: v2 says that version and provider (and
\* annotations) are present, iv / wt that iv / wrap_type are; wrapped_data is
\* always there.  bad: "iv_b64", "wrap_type" (no WrapType of that name),
\* "wrapped_b64", "decrypt".
Packet(v2, provider, id, iv, wt, bad) ==
    [op |-> "unwrap", provider |-> provider, type |-> "packet", id |-> id,
     v2 |-> v2, iv |-> iv, wt |-> wt, annIv |-> FALSE, bad |-> bad]

\* The argument of DataHub::get_resource is a JSON document.  JsonString is
\* serde_json::from_str on it as far as the string it holds; a document
\* that is no JSON string gives NotJson.
UriJsons ==
    {"\"kbs:///default/key/1\"", "\"uuid00111\"", "kbs:///default/key/1"}
NotJson == "(not a JSON string)"
JsonString(doc) ==
    CASE doc = "\"kbs:///default/key/1\"" -> "kbs:///default/key/1"
      [] doc = "\"uuid00111\"" -> "uuid00111"
      [] OTHER -> NotJson

UriReq(id) ==
    [op |-> "get_resource", provider |-> "kbs", type |-> "uri", id |-> id,
     v2 |-> FALSE, iv |-> FALSE, wt |-> FALSE, annIv |-> FALSE, bad |-> {}]

ValidId == "kbs:///default/key/1"

\* The requests of the RPC tasks: every structure, and one content defect.
Secrets ==
    {Secret(p, "Envelope", i, a, {}) : p \in Providers, i \in Ids, a \in BOOLEAN}
    \cup {Secret(p, "Vault", i, FALSE, {}) : p \in Providers, i \in Ids}
    \cup {Secret("kbs", "Envelope", ValidId, TRUE, {"dek"})}

Packets ==
    {Packet(TRUE, p, i, iv, wt, {}) :
        p \in Providers, i \in Ids, iv \in BOOLEAN, wt \in BOOLEAN}
    \cup {Packet(FALSE, "", i, iv, wt, {}) :
        i \in Ids, iv \in BOOLEAN, wt \in BOOLEAN}
    \cup {Packet(TRUE, "kbs", ValidId, TRUE, TRUE, {"wrap_type"})}

\* The arguments of the library calls: the backend is the caller's choice.
Backends == {"kbs"} \cup Drivers

LibSecrets ==
    {Secret(p, "Envelope", i, a, {}) :
        p \in {"kbs", "ali"}, i \in Ids, a \in BOOLEAN}
    \cup {Secret(p, "Vault", i, FALSE, {}) : p \in {"kbs", "ali"}, i \in Ids}
    \cup {Secret("kbs", "Envelope", ValidId, FALSE, {"enc_key_b64"})}
    \cup {Secret("kbs", "Envelope", ValidId, a, {"dek"}) : a \in BOOLEAN}
    \cup {Secret("kbs", "Envelope", ValidId, TRUE, {"decrypt"})}

LibPackets ==
    {Packet(TRUE, p, i, o, o, {}) :
        p \in {"kbs", "ali"}, i \in Ids, o \in BOOLEAN}
    \cup {Packet(TRUE, "ali", "uuid00111", FALSE, FALSE, {"wrapped_b64"})}

\* The same values as a V1 packet and as a V2 packet for the KBS: kid is a
\* ResourceUri in V1 and its string in V2; iv, wrap_type and wrapped_data
\* are present in both and may each be unusable.
Kids == {"kbs:///default/key/1", "kbs:///default/key/2"}
UnwrapDefects ==
    {{}, {"iv_b64"}, {"wrap_type"}, {"wrapped_b64"}, {"decrypt"},
     {"iv_b64", "wrap_type"}, {"wrap_type", "wrapped_b64"}}
PacketsV1 == {Packet(FALSE, "", k, TRUE, TRUE, b) : k \in Kids, b \in UnwrapDefects}
PacketsV2Kbs ==
    {Packet(TRUE, "kbs", k, TRUE, TRUE, b) : k \in Kids, b \in UnwrapDefects}

\* ------------------------------------------------------ local procedures
Done(t, req, via, res) ==
    [TaskIdle EXCEPT !.pc = "done", !.req = req, !.via = via, !.res = res]

Wait(pc, req, via, cont) ==
    [TaskIdle EXCEPT !.pc = pc, !.req = req, !.via = via, !.cont = cont]

\* serde(untagged) on AnnotationPacket: V1 is tried first and ignores the
\* fields it does not know; V2 needs version and provider.
ParsePacket(p) ==
    IF ResourceUri(p.id) # NoPath /\ p.iv /\ p.wt THEN "V1"
    ELSE IF p.v2 THEN "V2"
    ELSE "err"

\* The steps of the unwrap procedures that follow the KEK fetch.
UnwrapTail(req) ==
    IF "iv_b64" \in req.bad THEN [res |-> "err_iv", log |-> <<>>]
    ELSE IF "wrap_type" \in req.bad THEN [res |-> "err_wrap_type", log |-> <<>>]
    ELSE IF "wrapped_b64" \in req.bad THEN [res |-> "err_wrapped_data", log |-> <<>>]
    ELSE IF "decrypt" \in req.bad THEN [res |-> "err_decrypt", log |-> <<"decrypt">>]
    ELSE [res |-> "ok", log |-> <<"decrypt">>]

\* Envelope: the data decryption under the DEK, common to both backends.
EnvelopeDataTail(req) ==
    IF "iv_b64" \in req.bad THEN [res |-> "err_base64", log |-> <<>>]
    ELSE IF "data_b64" \in req.bad THEN [res |-> "err_base64", log |-> <<>>]
    ELSE IF "decrypt" \in req.bad THEN [res |-> "err_decrypt", log |-> <<"data_decrypt">>]
    ELSE [res |-> "ok", log |-> <<"data_decrypt">>]

\* (mutant) an envelope without annotations["iv"] is unwrapped with an
\* empty IV.
EnvelopeKbsTail_defaultiv(req) ==
    IF req.annIv /\ "ann_iv_b64" \in req.bad THEN [res |-> "err_base64", log |-> <<>>]
    ELSE IF "dek" \in req.bad THEN [res |-> "err_decrypt", log |-> <<"dek_unwrap">>]
    ELSE LET d == EnvelopeDataTail(req) IN
         [res |-> d.res, log |-> <<"dek_unwrap">> \o d.log]

\* Envelope::unseal_with_kbs after the KEK fetch.
EnvelopeKbsTail(req) ==
    IF ~req.annIv THEN [res |-> "err_no_iv", log |-> <<>>]
    ELSE IF "ann_iv_b64" \in req.bad THEN [res |-> "err_base64", log |-> <<>>]
    ELSE IF "dek" \in req.bad THEN [res |-> "err_decrypt", log |-> <<"dek_unwrap">>]
    ELSE LET d == EnvelopeDataTail(req) IN
         [res |-> d.res, log |-> <<"dek_unwrap">> \o d.log]

NoTail(res) == [res |-> res, log |-> <<>>]

\* (mutant) the V2 procedure parses wrap_type before it decodes iv.
KbsTail_v2order(cont, req, fetch) ==
    IF fetch # "ok" THEN NoTail(fetch)
    ELSE CASE cont = "v1" -> UnwrapTail(req)
           [] cont = "v2" ->
                IF "wrap_type" \in req.bad THEN NoTail("err_wrap_type")
                ELSE UnwrapTail(req)
           [] cont = "envelope" -> EnvelopeKbsTail(req)
           [] OTHER -> NoTail("ok")

\* (mutant) the caller goes on with whatever the fetch left in the buffer.
KbsTail_ignorefetch(cont, req, fetch) ==
    CASE cont \in {"v1", "v2"} -> UnwrapTail(req)
      [] cont = "envelope" -> EnvelopeKbsTail(req)
      [] OTHER -> NoTail(fetch)

\* What the caller of Client::get_resource does with its result.
KbsTail(cont, req, fetch) ==
    IF fetch # "ok" THEN NoTail(fetch)
    ELSE CASE cont \in {"v1", "v2"} -> UnwrapTail(req)
           [] cont = "envelope" -> EnvelopeKbsTail(req)
           [] OTHER -> NoTail("ok")

\* What the caller of a driver does with the driver's result.
KmsTail(cont, req, ok) ==
    IF ~ok THEN NoTail("err_kms")
    ELSE IF cont = "envelope" THEN EnvelopeDataTail(req)
    ELSE NoTail("ok")

\* (mutant) the arms of the match on the content are swapped.
unseal_swapped(t, secret, via) ==
    IF secret.type # "Envelope" THEN
        IF "enc_key_b64" \in secret.bad THEN Done(t, secret, via, "err_base64")
        ELSE Wait(IF via = "kbs" THEN "lock" ELSE "klock", secret, via, "envelope")
    ELSE IF via = "kbs" THEN
        IF ResourceUri(secret.id) = NoPath THEN Done(t, secret, via, "err_uri")
        ELSE Wait("lock", secret, via, "vault")
    ELSE Wait("klock", secret, via, "vault")

\* UnSealer::unseal up to its first await.
unseal(t, secret, via) ==
    IF secret.type = "Envelope" THEN
        IF "enc_key_b64" \in secret.bad THEN Done(t, secret, via, "err_base64")
        ELSE Wait(IF via = "kbs" THEN "lock" ELSE "klock", secret, via, "envelope")
    ELSE IF via = "kbs" THEN
        IF ResourceUri(secret.id) = NoPath THEN Done(t, secret, via, "err_uri")
        ELSE Wait("lock", secret, via, "vault")
    ELSE Wait("klock", secret, via, "vault")

\* (mutant) the Kbs arm does not insist on iv.
unwrap_key_with_noiv(t, pkt, via) ==
    IF via = "kbs" THEN
        IF pkt.provider # "kbs" THEN Done(t, pkt, via, "err_provider")
        ELSE IF ~pkt.wt THEN Done(t, pkt, via, "err_no_wrap_type")
        ELSE IF ResourceUri(pkt.id) = NoPath THEN Done(t, pkt, via, "err_uri")
        ELSE Wait("lock", pkt, via, "v2")
    ELSE IF "wrapped_b64" \in pkt.bad THEN Done(t, pkt, via, "err_wrapped_data")
    ELSE Wait("klock", pkt, via, "v2")

\* AnnotationPacketV1::unwrap_key_with up to its first await: the lock.
unwrap_key_with_v1(t, pkt) == Wait("lock", pkt, "kbs", "v1")

\* AnnotationPacketV2::unwrap_key_with up to its first await.
unwrap_key_with(t, pkt, via) ==
    IF via = "kbs" THEN
        IF pkt.provider # "kbs" THEN Done(t, pkt, via, "err_provider")
        ELSE IF ~pkt.wt THEN Done(t, pkt, via, "err_no_wrap_type")
        ELSE IF ~pkt.iv THEN Done(t, pkt, via, "err_no_iv")
        ELSE IF ResourceUri(pkt.id) = NoPath THEN Done(t, pkt, via, "err_uri")
        ELSE Wait("lock", pkt, via, "v2")
    ELSE IF "wrapped_b64" \in pkt.bad THEN Done(t, pkt, via, "err_wrapped_data")
    ELSE Wait("klock", pkt, via, "v2")

\* The routing of DataHub::unseal_secret and of the V2 arm of
\* DataHub::unwrap_key: the backend, or the error.
\* (mutant) the provider is compared ignoring case.
IsKbs_nocase(provider) == provider \in {"kbs", "KBS"}

IsKbs(provider) == provider = "kbs"

Route(provider) ==
    IF IsKbs(provider) THEN "kbs"
    ELSE IF kms_manager # EmptyMap THEN
        IF provider \in DOMAIN kms_manager THEN kms_manager[provider]
        ELSE "err_no_driver"
    ELSE "err_failed"

\* --------------------------------------------------- envelope values
\* The values of a seal: plaintexts, the random DEK and IVs, and the keys the
\* KBS serves as KEK ("kekShort" is not 32 bytes long).
Plaintexts == {"hello", "world"}
Deks == {"dekA", "dekB"}
Ivs == {"iv1", "iv2"}
Keks == {"kekA", "kekB", "kekShort"}

\* crypto::encrypt / crypto::decrypt under A256GCM: the ciphertext opens
\* under the key and IV it was made with and under no other.
Failed == [ok |-> FALSE, v |-> "none"]
encrypt(key, data, iv, wrap_type) ==
    IF key = "kekShort" THEN Failed
    ELSE [ok |-> TRUE,
          v |-> [enc |-> wrap_type, key |-> key, iv |-> iv, pt |-> data]]

decrypt(key, ciphertext, iv, wrap_type) ==
    IF /\ key # "kekShort" /\ ciphertext.enc = wrap_type
       /\ ciphertext.key = key /\ ciphertext.iv = iv
    THEN [ok |-> TRUE, v |-> ciphertext.pt]
    ELSE Failed

\* base64 STANDARD engine: encode, and decode of an encoded value.
Encode(bytes) == [b64 |-> bytes]
Decode(text) == text.b64

\* (mutant) the data IV is stored under annotations["iv"].
SealedEnvelope_dataiv(keyid, encrypted_key, ciphertext, symmetric_iv, sealed_iv) ==
    [key_id |-> keyid, encrypted_key |-> Encode(encrypted_key),
     encrypted_data |-> Encode(ciphertext), wrap_type |-> "A256GCM",
     iv |-> Encode(symmetric_iv),
     annotations |-> [k \in {"iv"} |-> Encode(symmetric_iv)]]

\* The Envelope that seal_with_kbs returns.
SealedEnvelope(keyid, encrypted_key, ciphertext, symmetric_iv, sealed_iv) ==
    [key_id |-> keyid, encrypted_key |-> Encode(encrypted_key),
     encrypted_data |-> Encode(ciphertext), wrap_type |-> "A256GCM",
     iv |-> Encode(symmetric_iv),
     annotations |-> [k \in {"iv"} |-> Encode(sealed_iv)]]

\* Envelope::seal_with_kbs after the KEK fetch: the DEK is encrypted under
\* the KEK with a fresh IV, symmetric_key is zeroised and the Envelope built.
SealKbsTail(req, key, sealed_iv) ==
    LET ciphertext == encrypt(req.dek, req.data, req.iv, "A256GCM").v
        encrypted_key == encrypt(key, req.dek, sealed_iv, "A256GCM") IN
    IF ~encrypted_key.ok
    THEN [res |-> "err_encrypt", zero |-> "live", out |-> NoEnvelope]
    ELSE [res |-> "ok", zero |-> "zeroized",
          out |-> SealedEnvelope(req.id, encrypted_key.v, ciphertext,
                                 req.iv, sealed_iv)]

\* Envelope::unseal_with_kbs after the KEK fetch, on the values of the
\* envelope.
OpenKbsTail(envelope, key) ==
    IF "iv" \notin DOMAIN envelope.annotations
    THEN [res |-> "err_no_iv", v |-> "none", log |-> <<>>]
    ELSE LET enc_dek == Decode(envelope.encrypted_key)
             datakey == decrypt(key, enc_dek,
                                Decode(envelope.annotations["iv"]), "A256GCM") IN
         IF ~datakey.ok
         THEN [res |-> "err_decrypt", v |-> "none", log |-> <<"dek_unwrap">>]
         ELSE LET data == decrypt(datakey.v, Decode(envelope.encrypted_data),
                                  Decode(envelope.iv), envelope.wrap_type) IN
              IF data.ok
              THEN [res |-> "ok", v |-> data.v,
                    log |-> <<"dek_unwrap", "data_decrypt">>]
              ELSE [res |-> "err_decrypt", v |-> "none",
                    log |-> <<"dek_unwrap", "data_decrypt">>]

\* ------------------------------------------------------ DataHub: start
\* DataHub::start -> Client::new: Handshaker::new() and then the handshake.
start(h, newOk) ==
    /\ hub.status = "down"
    /\ IF newOk
       THEN /\ hub' = [hub EXCEPT !.status = "starting", !.host = h]
            /\ HsBegin(h, "new")
       ELSE /\ hub' = [hub EXCEPT !.status = "failed", !.host = NoHost]
            /\ UNCHANGED hs
    /\ UNCHANGED <<tee_key, kbs_host_url, keyGen, authed, attested, call>>
    /\ UNCHANGED taskVars

\* ------------------------------------------------- DataHub: operations
Ready(t) == hub.status = "up" /\ task[t].pc = "idle"

\* DataHub::get_resource: serde_json::from_str::<ResourceUri>(&uri), then
\* the lock.
get_resource(t, uri) ==
    /\ Ready(t)
    /\ task' = [task EXCEPT ![t] =
          LET id == JsonString(uri) IN
          IF ResourceUri(id) = NoPath
          THEN Done(t, UriReq(id), "kbs", "err_parse")
          ELSE Wait("lock", UriReq(id), "kbs", "resource")]
    /\ UNCHANGED <<hsVars, call, hub, kbsLock, kms_manager, kmsLock>>

\* (mutant) a driver is created on the first reference to its provider.
unseal_secret_lazy(t, secret) ==
    /\ Ready(t)
    /\ LET via == Route(secret.provider)
           req == [secret EXCEPT !.op = "unseal_secret"] IN
       task' = [task EXCEPT ![t] =
          IF via \in {"err_no_driver", "err_failed"}
          THEN Done(t, req, "none", via)
          ELSE unseal(t, req, via)]
    /\ kms_manager' = IF secret.provider \in Drivers
                      THEN [n \in DOMAIN kms_manager \cup {secret.provider} |-> n]
                      ELSE kms_manager
    /\ UNCHANGED <<hsVars, call, hub, kbsLock, kmsLock>>

\* DataHub::unseal_secret
unseal_secret(t, secret) ==
    /\ Ready(t)
    /\ LET via == Route(secret.provider)
           req == [secret EXCEPT !.op = "unseal_secret"] IN
       task' = [task EXCEPT ![t] =
          IF via \in {"err_no_driver", "err_failed"}
          THEN Done(t, req, "none", via)
          ELSE unseal(t, req, via)]
    /\ UNCHANGED <<hsVars, call, hub, kbsLock, kms_manager, kmsLock>>

\* DataHub::unwrap_key
unwrap_key(t, pkt) ==
    /\ Ready(t)
    /\ LET req == [pkt EXCEPT !.op = "unwrap_key"]
           shape == ParsePacket(pkt)
           via == Route(pkt.provider) IN
       task' = [task EXCEPT ![t] =
          CASE shape = "err" -> Done(t, req, "none", "err_parse")
            [] shape = "V1" -> Wait("lock", req, "kbs", "v1")
            [] OTHER -> IF via \in {"err_no_driver", "err_failed"}
                        THEN Done(t, req, "none", via)
                        ELSE unwrap_key_with(t, req, via)]
    /\ UNCHANGED <<hsVars, call, hub, kbsLock, kms_manager, kmsLock>>

\* ---------------------------------------------- the KBS client, shared
\* (mutant) the client is used without taking its lock.
KbsLockFree_unlocked == TRUE

\* kbs_client.lock().await
KbsLockFree == kbsLock = 0

\* match res.status() of Client::get_resource
ClientGetResult(status, r) ==
    CASE status = "200" -> ReadBody(tee_key, r).res
      [] status = "401" -> "unauthorized"
      [] status = "404" -> "not_found"
      [] status = "neterr" -> "err_send"
      [] OTHER -> ServerError(r)

\* (mutant) the GET is sent before the key id is looked at.
KbsAcquire_noparse(t) ==
    /\ task[t].pc = "lock"
    /\ KbsLockFree
    /\ task' = [task EXCEPT ![t].pc = "get",
                            ![t].path = ResourceUri(task[t].req.id),
                            ![t].gets = @ + 1,
                            ![t].log = Append(@, "kbs_get")]
    /\ kbsLock' = t
    /\ UNCHANGED <<hsVars, call, hub, kms_manager, kmsLock>>

\* The task gets the lock.  unseal_with_kbs and seal_with_kbs parse the key
\* id under the lock; otherwise Client::get_resource sends its GET.
KbsAcquire(t) ==
    /\ task[t].pc = "lock"
    /\ KbsLockFree
    /\ LET path == ResourceUri(task[t].req.id) IN
       IF task[t].cont \in {"envelope", "seal", "open"} /\ path = NoPath
       THEN /\ task' = [task EXCEPT ![t].pc = "done", ![t].res = "err_uri"]
            /\ UNCHANGED kbsLock
       ELSE /\ task' = [task EXCEPT ![t].pc = "get", ![t].path = path,
                                    ![t].gets = @ + 1,
                                    ![t].log = Append(@, "kbs_get")]
            /\ kbsLock' = t
    /\ UNCHANGED <<hsVars, call, hub, kms_manager, kmsLock>>

\* (mutant) a 401 makes the client forget its session.
KbsResp_forget(t, status, r) ==
    /\ task[t].pc = "get"
    /\ LET fetch == ClientGetResult(status, r)
           tail == KbsTail(task[t].cont, task[t].req, fetch) IN
       task' = [task EXCEPT ![t].pc = "done", ![t].first = status,
                            ![t].fetch = fetch,
                            ![t].log = @ \o tail.log, ![t].res = tail.res]
    /\ kbsLock' = 0
    /\ tee_key' = IF status = "401" THEN NoKey ELSE tee_key
    /\ UNCHANGED <<kbs_host_url, keyGen, hs, authed, attested>>
    /\ UNCHANGED <<call, hub, kms_manager, kmsLock>>

\* The GET is answered: Client::get_resource returns, the guard is dropped
\* and the caller finishes on its own.
KbsResp(t, status, r) ==
    /\ task[t].pc = "get"
    /\ LET fetch == ClientGetResult(status, r)
           tail == KbsTail(task[t].cont, task[t].req, fetch) IN
       task' = [task EXCEPT ![t].pc = "done", ![t].first = status,
                            ![t].fetch = fetch,
                            ![t].log = @ \o tail.log, ![t].res = tail.res]
    /\ kbsLock' = 0
    /\ UNCHANGED <<hsVars, call, hub, kms_manager, kmsLock>>

\* The call has returned to the RPC layer.
TaskReturn(t) ==
    /\ task[t].pc = "done"
    /\ task' = [task EXCEPT ![t] = TaskIdle]
    /\ UNCHANGED <<hsVars, call, hub, kbsLock, kms_manager, kmsLock>>

\* ------------------------------------------------------- KMS drivers
\* (mutant) a driver is called without taking its lock.
KmsLockFree_unlocked(d) == TRUE

\* kms_client.lock().await
KmsLockFree(d) == kmsLock[d] = 0

\* (mutant) the driver is called whatever its name.
KmsAcquire_anyname(t) ==
    /\ task[t].pc = "klock"
    /\ KmsLockFree(task[t].via)
    /\ task' = [task EXCEPT ![t].pc = "kms", ![t].path = task[t].req.id,
                 ![t].log = Append(@, CASE task[t].cont = "vault" -> "kms_get_secret"
                                        [] task[t].cont = "seal" -> "kms_encrypt"
                                        [] task[t].cont = "vault_seal" -> "kms_set_secret"
                                        [] OTHER -> "kms_decrypt")]
    /\ kmsLock' = [kmsLock EXCEPT ![task[t].via] = t]
    /\ UNCHANGED <<hsVars, call, hub, kbsLock, kms_manager>>

\* The task gets the driver's lock.  unwrap_key_with compares name() with
\* the provider; then the driver is called.
KmsAcquire(t) ==
    /\ task[t].pc = "klock"
    /\ KmsLockFree(task[t].via)
    /\ IF task[t].cont = "v2" /\ task[t].via # task[t].req.provider
       THEN /\ task' = [task EXCEPT ![t].pc = "done", ![t].res = "err_provider"]
            /\ UNCHANGED kmsLock
       ELSE /\ task' = [task EXCEPT ![t].pc = "kms", ![t].path = task[t].req.id,
                 ![t].log = Append(@, CASE task[t].cont = "vault" -> "kms_get_secret"
                                        [] task[t].cont = "seal" -> "kms_encrypt"
                                        [] task[t].cont = "vault_seal" -> "kms_set_secret"
                                        [] OTHER -> "kms_decrypt")]
            /\ kmsLock' = [kmsLock EXCEPT ![task[t].via] = t]
    /\ UNCHANGED <<hsVars, call, hub, kbsLock, kms_manager>>

\* What VaultSecret::seal_with_kms returns: the name it was given and the
\* annotations set_secret answered; any other call leaves out alone.
VaultSealed(tk, ok) ==
    IF tk.cont = "vault_seal" /\ ok
    THEN [name |-> tk.req.id, annotations |-> "set_secret"]
    ELSE tk.out

\* (mutant) the guard outlives a failed driver call.
KmsResp_leak(t, ok) ==
    /\ task[t].pc = "kms"
    /\ LET tail == KmsTail(task[t].cont, task[t].req, ok) IN
       task' = [task EXCEPT ![t].pc = "done", ![t].log = @ \o tail.log,
                            ![t].res = tail.res,
                            ![t].out = VaultSealed(task[t], ok)]
    /\ kmsLock' = IF ok THEN [kmsLock EXCEPT ![task[t].via] = 0] ELSE kmsLock
    /\ UNCHANGED <<hsVars, call, hub, kbsLock, kms_manager>>

\* The driver answers; the guard is dropped and the caller finishes.
KmsResp(t, ok) ==
    /\ task[t].pc = "kms"
    /\ LET tail == KmsTail(task[t].cont, task[t].req, ok) IN
       task' = [task EXCEPT ![t].pc = "done", ![t].log = @ \o tail.log,
                            ![t].res = tail.res,
                            ![t].out = VaultSealed(task[t], ok)]
    /\ kmsLock' = [kmsLock EXCEPT ![task[t].via] = 0]
    /\ UNCHANGED <<hsVars, call, hub, kbsLock, kms_manager>>

\* ------------------------------------------------------ library calls
\* UnSealer::unseal on a backend of the caller's
LibUnseal(t, secret, via) ==
    /\ Ready(t)
    /\ task' = [task EXCEPT ![t] = unseal(t, secret, via)]
    /\ UNCHANGED <<hsVars, call, hub, kbsLock, kms_manager, kmsLock>>

\* AnnotationPacketV2::unwrap_key_with on an Unwrapper of the caller's
LibUnwrap(t, pkt, via) ==
    /\ Ready(t)
    /\ task' = [task EXCEPT ![t] = unwrap_key_with(t, pkt, via)]
    /\ UNCHANGED <<hsVars, call, hub, kbsLock, kms_manager, kmsLock>>

\* AnnotationPacketV1::unwrap_key_with on a client of the caller's
LibUnwrapV1(t, pkt) ==
    /\ Ready(t)
    /\ task' = [task EXCEPT ![t] = unwrap_key_with_v1(t, pkt)]
    /\ UNCHANGED <<hsVars, call, hub, kbsLock, kms_manager, kmsLock>>

\* --------------------------------------------- sealing a vault secret
VaultNames == {"name1", "uuid00111"}

VaultSealReq(name, data) ==
    [op |-> "vault_seal", provider |-> "none", type |-> "Vault", id |-> name,
     v2 |-> FALSE, iv |-> FALSE, wt |-> FALSE, annIv |-> FALSE, bad |-> {},
     data |-> data]

\* VaultSecret::seal_with_kms up to sealer.lock().await; set_secret is
\* called under the lock and the secret is built from what it returns.
vault_seal_with_kms(t, name, data, via) ==
    /\ Ready(t)
    /\ task' = [task EXCEPT ![t] =
                  Wait("klock", VaultSealReq(name, data), via, "vault_seal")]
    /\ UNCHANGED <<hsVars, call, hub, kbsLock, kms_manager, kmsLock>>

\* VaultSecret::seal_with_kbs is todo!(): the call panics.
vault_seal_with_kbs(t, name, data) ==
    /\ Ready(t)
    /\ task' = [task EXCEPT ![t] =
                  Done(t, VaultSealReq(name, data), "kbs", "panic")]
    /\ UNCHANGED <<hsVars, call, hub, kbsLock, kms_manager, kmsLock>>

\* ------------------------------------------------- sealing an envelope
\* The arguments of a seal and what it drew at random.
SealReq(keyid, data, dek, iv) ==
    [op |-> "seal", id |-> keyid, data |-> data, dek |-> dek, iv |-> iv]

\* Envelope::seal_with_kbs up to sealer.lock().await: the DEK and the data IV
\* are drawn and the data is encrypted.
seal_with_kbs(t, keyid, data, dek, iv) ==
    /\ Ready(t)
    /\ task' = [task EXCEPT ![t] =
          [Wait("lock", SealReq(keyid, data, dek, iv), "kbs", "seal")
             EXCEPT !.zero = "live"]]
    /\ UNCHANGED <<hsVars, call, hub, kbsLock, kms_manager, kmsLock>>

\* Envelope::seal_with_kms up to sealer.lock().await
seal_with_kms(t, keyid, data, dek, iv, via) ==
    /\ Ready(t)
    /\ task' = [task EXCEPT ![t] =
          [Wait("klock", SealReq(keyid, data, dek, iv), via, "seal")
             EXCEPT !.zero = "live"]]
    /\ UNCHANGED <<hsVars, call, hub, kbsLock, kms_manager, kmsLock>>

\* The GET of seal_with_kbs is answered with the KEK `key` (when it is a 200
\* that decrypts); sealed_iv is drawn and the seal finishes.
SealKbsResp(t, status, r, key, sealed_iv) ==
    /\ task[t].pc = "get" /\ task[t].cont = "seal"
    /\ LET fetch == ClientGetResult(status, r)
           tail == SealKbsTail(task[t].req, key, sealed_iv) IN
       task' = [task EXCEPT ![t] =
          IF fetch # "ok"
          THEN [@ EXCEPT !.pc = "done", !.first = status, !.fetch = fetch,
                         !.res = fetch]
          ELSE [@ EXCEPT !.pc = "done", !.first = status, !.fetch = fetch,
                         !.res = tail.res,
                         !.kek = key, !.zero = tail.zero, !.out = tail.out]]
    /\ kbsLock' = 0
    /\ UNCHANGED <<hsVars, call, hub, kms_manager, kmsLock>>

\* The Annotations a driver's encrypt can return beside the ciphertext.
DriverAnnotations == {EmptyMap, [k \in {"drv"} |-> "ann"]}

\* client.encrypt(&symmetric_key, &keyid) of seal_with_kms returns, on Ok
\* with the wrapped key and the driver's annotations, which the Envelope
\* stores as they are.
SealKmsResp(t, ok, annotations) ==
    /\ task[t].pc = "kms" /\ task[t].cont = "seal"
    /\ LET req == task[t].req
           ciphertext == encrypt(req.dek, req.data, req.iv, "A256GCM").v
           wrapped == [enc |-> task[t].via, key |-> req.id, iv |-> "none",
                       pt |-> req.dek] IN
       task' = [task EXCEPT ![t] =
          IF ~ok THEN [@ EXCEPT !.pc = "done", !.res = "err_kms"]
          ELSE [@ EXCEPT !.pc = "done", !.res = "ok", !.zero = "zeroized",
                  !.out = [SealedEnvelope(req.id, wrapped, ciphertext,
                                          req.iv, "none")
                             EXCEPT !.annotations = annotations]]]
    /\ kmsLock' = [kmsLock EXCEPT ![task[t].via] = 0]
    /\ UNCHANGED <<hsVars, call, hub, kbsLock, kms_manager>>

\* The caller unseals the Envelope it got from seal_with_kbs:
\* Envelope::unseal_with_kbs up to unsealer.lock().await.
open_sealed(t) ==
    /\ task[t].pc = "done" /\ task[t].req.op = "seal"
    /\ task[t].via = "kbs" /\ task[t].res = "ok"
    /\ task' = [task EXCEPT ![t] =
          [Wait("lock", [op |-> "open", id |-> task[t].out.key_id,
                         data |-> task[t].req.data, sealKek |-> task[t].kek],
                "kbs", "open")
             EXCEPT !.out = task[t].out]]
    /\ UNCHANGED <<hsVars, call, hub, kbsLock, kms_manager, kmsLock>>

\* The GET of unseal_with_kbs is answered with the KEK `key`.
OpenKbsResp(t, status, r, key) ==
    /\ task[t].pc = "get" /\ task[t].cont = "open"
    /\ LET fetch == ClientGetResult(status, r)
           tail == OpenKbsTail(task[t].out, key) IN
       task' = [task EXCEPT ![t] =
          IF fetch # "ok"
          THEN [@ EXCEPT !.pc = "done", !.first = status, !.fetch = fetch,
                         !.res = fetch]
          ELSE [@ EXCEPT !.pc = "done", !.first = status, !.fetch = fetch,
                         !.res = tail.res, !.kek = key, !.plain = tail.v,
                         !.log = @ \o tail.log]]
    /\ kbsLock' = 0
    /\ UNCHANGED <<hsVars, call, hub, kms_manager, kmsLock>>

\* ------------------------------------------------------------- Spec
Init == InitHs

StepHs ==
    \/ \E ok \in BOOLEAN, keyOk \in BOOLEAN, nonce \in Nonces :
            HsAuthResp(ok, keyOk, nonce)
    \/ \E ok \in BOOLEAN : HsEvidenceResp(ok)
    \/ \E s \in Statuses : HsAttestResp(s)
    \/ \E bodyOk \in BOOLEAN : HsAttestBody(bodyOk)
    \/ Cancel

Next ==
    \/ \E h \in Hosts, newOk \in BOOLEAN : start(h, newOk)
    \/ StepHs
    \/ \E t \in Tasks, uri \in UriJsons : get_resource(t, uri)
    \/ \E t \in Tasks, secret \in Secrets : unseal_secret(t, secret)
    \/ \E t \in Tasks, pkt \in Packets : unwrap_key(t, pkt)
    \/ \E t \in Tasks : KbsAcquire(t)
    \/ \E t \in Tasks, s \in Statuses : \E r \in BodiesOf(s) : KbsResp(t, s, r)
    \/ \E t \in Tasks : TaskReturn(t)

Spec == Init /\ [][Next]_vars

\* The secret and image libraries on one KBS client and the KMS drivers.
NextLib ==
    \/ \E h \in Hosts, newOk \in BOOLEAN : start(h, newOk)
    \/ StepHs
    \/ \E t \in Tasks, secret \in LibSecrets, via \in Backends :
            LibUnseal(t, secret, via)
    \/ \E t \in Tasks, pkt \in LibPackets, via \in Backends :
            LibUnwrap(t, pkt, via)
    \/ \E t \in Tasks : KbsAcquire(t)
    \/ \E t \in Tasks, s \in Statuses : \E r \in BodiesOf(s) : KbsResp(t, s, r)
    \/ \E t \in Tasks, name \in VaultNames, data \in Plaintexts, via \in Drivers :
            vault_seal_with_kms(t, name, data, via)
    \/ \E t \in Tasks, name \in VaultNames, data \in Plaintexts :
            vault_seal_with_kbs(t, name, data)
    \/ \E t \in Tasks : KmsAcquire(t)
    \/ \E t \in Tasks, ok \in BOOLEAN : KmsResp(t, ok)
    \/ \E t \in Tasks : TaskReturn(t)

SpecLib == Init /\ [][NextLib]_vars

\* The image library unwrapping V1 packets and V2 packets for the KBS on one
\* client.
NextUnwrap ==
    \/ \E h \in Hosts, newOk \in BOOLEAN : start(h, newOk)
    \/ StepHs
    \/ \E t \in Tasks, pkt \in PacketsV1 : LibUnwrapV1(t, pkt)
    \/ \E t \in Tasks, pkt \in PacketsV2Kbs : LibUnwrap(t, pkt, "kbs")
    \/ \E t \in Tasks : KbsAcquire(t)
    \/ \E t \in Tasks, s \in Statuses : \E r \in BodiesOf(s) : KbsResp(t, s, r)
    \/ \E t \in Tasks : TaskReturn(t)

SpecUnwrap == Init /\ [][NextUnwrap]_vars

\* ------------------------------------------- key provider: input check
\* Option<T> of the JSON input: absent, or present with a value.
None == [some |-> FALSE]
Some(v) == [some |-> TRUE, v |-> v]

\* Dc and Ec by the names of their Parameters.
DcValues == {[parameters |-> {}], [parameters |-> {"attestation-agent"}]}
EcValues ==
    {[parameters |-> p, decrypt_config |-> d] :
        p \in {{}, {"pubkeys"}}, d \in DcValues}
OpValues == {"keyunwrap", "keywrap", "", "KeyUnwrap", "keyprovider"}
StringValues == {"", "eyJraWQiOiJrYnM6Ly8vIn0="}

KeyProviderInputs ==
    [op : OpValues,
     ec : {None} \cup {Some(e) : e \in EcValues},
     optsdata : {None} \cup {Some(x) : x \in StringValues},
     dc : {None} \cup {Some(d) : d \in DcValues},
     annotation : {None} \cup {Some(x) : x \in StringValues}]

\* Dc::empty, Ec::empty
Dc_empty(dc) == dc.parameters = {}
Ec_empty(ec) == ec.parameters = {} /\ Dc_empty(ec.decrypt_config)

\* KeyWrapParams::valid
KeyWrapParams_valid(in) ==
    LET ec_empty == IF in.ec.some THEN Ec_empty(in.ec.v) ELSE TRUE
        optsdata_empty == IF in.optsdata.some THEN in.optsdata.v = "" ELSE TRUE IN
    IF ~ec_empty THEN "WrapParamsExpectEmptyEc"
    ELSE IF ~optsdata_empty THEN "WrapParamsExpectEmptyOptsdata"
    ELSE "Ok"

\* KeyUnwrapParams::valid
KeyUnwrapParams_valid(in) ==
    LET dc_empty == IF in.dc.some THEN Dc_empty(in.dc.v) ELSE TRUE
        annotation_empty ==
            IF in.annotation.some THEN in.annotation.v = "" ELSE TRUE IN
    IF dc_empty THEN "UnwrapParamsNoDc"
    ELSE IF annotation_empty THEN "UnwrapParamsNoAnnotation"
    ELSE "Ok"

\* (mutant) the parameters are checked before the operator.
valid_paramsfirst(in) ==
    IF KeyWrapParams_valid(in) # "Ok" THEN KeyWrapParams_valid(in)
    ELSE IF KeyUnwrapParams_valid(in) # "Ok" THEN KeyUnwrapParams_valid(in)
    ELSE CASE in.op = "keywrap" -> "UnsupportedOp"
           [] in.op = "keyunwrap" -> "Ok"
           [] in.op = "" -> "MissingOp"
           [] OTHER -> "InvalidOp"

\* KeyProviderInput::valid: the match on op, then the two parameter checks,
\* each `?` returning the first error.
valid(in) ==
    LET op == CASE in.op = "keywrap" -> "UnsupportedOp"
                [] in.op = "keyunwrap" -> "Ok"
                [] in.op = "" -> "MissingOp"
                [] OTHER -> "InvalidOp" IN
    IF op # "Ok" THEN op
    ELSE IF KeyWrapParams_valid(in) # "Ok" THEN KeyWrapParams_valid(in)
    ELSE KeyUnwrapParams_valid(in)

\* The bytes of a request: not UTF-8, UTF-8 that does not deserialize as a
\* KeyProviderInput, or the JSON of an input.
KeyProviderBytes ==
    {[form |-> "not_utf8"], [form |-> "not_json"]}
        \cup {[form |-> "json", input |-> in] : in \in KeyProviderInputs}

\* KeyProviderInput::try_from: String::from_utf8, serde_json::from_str and
\* valid, each `?` returning its error.
try_from(t, bytes) ==
    /\ task[t].pc = "idle"
    /\ task' = [task EXCEPT ![t] =
                  [TaskIdle EXCEPT !.pc = "done", !.cont = "valid",
                        !.req = bytes,
                        !.res = CASE bytes.form = "not_utf8" -> "err_utf8"
                                  [] bytes.form = "not_json" -> "err_json"
                                  [] OTHER -> valid(bytes.input)]]
    /\ UNCHANGED <<hsVars, call, hub, kbsLock, kms_manager, kmsLock>>

\* The input check is a function of its argument: one request at a time.
ValidTasks == {1}

NextValid ==
    \/ \E t \in ValidTasks, bytes \in KeyProviderBytes : try_from(t, bytes)
    \/ \E t \in ValidTasks : TaskReturn(t)

SpecValid == Init /\ [][NextValid]_vars

\* ---------------------------------------------------- storage manager
\* Type has one variant; strum's EnumString matches its name exactly.
StorageTypes == {"AliOSS"}
StorageProviders == {"AliOSS", "alioss", "ALIOSS", "S3", ""}
BlobPaths == {"bucket/a", "bucket/b"}
MaxClients == 3

BlobReq(provider, path) ==
    [op |-> "get_blob", provider |-> provider, type |-> "blob", id |-> path,
     v2 |-> FALSE, iv |-> FALSE, wt |-> FALSE, annIv |-> FALSE, bad |-> {}]

\* get_blob takes &mut self: no other call is inside the manager.
Exclusive == \A u \in Tasks : task[u].pc # "blob"

\* (mutant) a client is built and stored on every call.
get_blob_always(t, provider, path, newOk) ==
    /\ task[t].pc = "idle" /\ Exclusive
    /\ LET req == BlobReq(provider, path)
           mgr == hub.storage_mgr IN
       IF provider \notin StorageTypes THEN
            /\ task' = [task EXCEPT ![t] = Done(t, req, "none", "err_type")]
            /\ hub' = hub
       ELSE IF ~newOk THEN
            /\ task' = [task EXCEPT ![t] = Done(t, req, "none", "err_client")]
            /\ hub' = hub
       ELSE /\ mgr.made < MaxClients
            /\ hub' = [hub EXCEPT !.storage_mgr =
                    [clients |-> [ty \in DOMAIN mgr.clients \cup {provider} |->
                                     IF ty = provider THEN mgr.made + 1
                                     ELSE mgr.clients[ty]],
                     made |-> mgr.made + 1]]
            /\ task' = [task EXCEPT ![t] =
                    [Wait("blob", req, provider, "blob") EXCEPT
                        !.client = mgr.made + 1, !.path = path]]
    /\ UNCHANGED <<hsVars, call, kbsLock, kms_manager, kmsLock>>

\* StorageManager::get_blob up to its await: Type::try_from, the client of
\* the type, built by to_client and stored if there is none, then the lock
\* and the client's get_blob.
get_blob(t, provider, path, newOk) ==
    /\ task[t].pc = "idle" /\ Exclusive
    /\ LET req == BlobReq(provider, path)
           mgr == hub.storage_mgr IN
       IF provider \notin StorageTypes THEN
            /\ task' = [task EXCEPT ![t] = Done(t, req, "none", "err_type")]
            /\ hub' = hub
       ELSE IF provider \in DOMAIN mgr.clients THEN
            /\ task' = [task EXCEPT ![t] =
                    [Wait("blob", req, provider, "blob") EXCEPT
                        !.client = mgr.clients[provider], !.path = path]]
            /\ hub' = hub
       ELSE IF ~newOk THEN
            /\ task' = [task EXCEPT ![t] = Done(t, req, "none", "err_client")]
            /\ hub' = hub
       ELSE /\ mgr.made < MaxClients
            /\ hub' = [hub EXCEPT !.storage_mgr =
                    [clients |-> [ty \in DOMAIN mgr.clients \cup {provider} |->
                                     IF ty = provider THEN mgr.made + 1
                                     ELSE mgr.clients[ty]],
                     made |-> mgr.made + 1]]
            /\ task' = [task EXCEPT ![t] =
                    [Wait("blob", req, provider, "blob") EXCEPT
                        !.client = mgr.made + 1, !.path = path]]
    /\ UNCHANGED <<hsVars, call, kbsLock, kms_manager, kmsLock>>

\* The storage client answers.
BlobResp(t, ok) ==
    /\ task[t].pc = "blob"
    /\ task' = [task EXCEPT ![t].pc = "done",
                            ![t].log = Append(@, "get_blob"),
                            ![t].res = IF ok THEN "ok" ELSE "err_blob"]
    /\ UNCHANGED <<hsVars, call, hub, kbsLock, kms_manager, kmsLock>>

NextStorage ==
    \/ \E t \in Tasks, provider \in StorageProviders, path \in BlobPaths,
          newOk \in BOOLEAN : get_blob(t, provider, path, newOk)
    \/ \E t \in Tasks, ok \in BOOLEAN : BlobResp(t, ok)
    \/ \E t \in Tasks : TaskReturn(t)

SpecStorage == Init /\ [][NextStorage]_vars

\* The secret tool sealing envelopes and unsealing what it sealed: one call
\* at a time, on task 1.
SealTasks == {1}

NextSeal ==
    \/ \E h \in Hosts, newOk \in BOOLEAN : start(h, newOk)
    \/ StepHs
    \/ \E t \in SealTasks, keyid \in Ids, data \in Plaintexts, dek \in Deks,
          iv \in Ivs : seal_with_kbs(t, keyid, data, dek, iv)
    \/ \E t \in SealTasks, keyid \in Ids, data \in Plaintexts, dek \in Deks,
          iv \in Ivs, via \in Drivers : seal_with_kms(t, keyid, data, dek, iv, via)
    \/ \E t \in SealTasks : KbsAcquire(t)
    \/ \E t \in SealTasks, s \in Statuses, key \in Keks, sealed_iv \in Ivs :
          \E r \in BodiesOf(s) : SealKbsResp(t, s, r, key, sealed_iv)
    \/ \E t \in SealTasks : KmsAcquire(t)
    \/ \E t \in SealTasks, ok \in BOOLEAN, annotations \in DriverAnnotations :
          SealKmsResp(t, ok, annotations)
    \/ \E t \in SealTasks : open_sealed(t)
    \/ \E t \in SealTasks, s \in Statuses, key \in Keks :
          \E r \in BodiesOf(s) : OpenKbsResp(t, s, r, key)
    \/ \E t \in SealTasks : TaskReturn(t)

SpecSeal == Init /\ [][NextSeal]_vars

\* ================================================================ claims

\* C1  Retry-once (checked on the DataHub's KBS client): a get_resource call
\* whose first GET is answered 401 makes exactly one re-handshake, which is
\* followed by at most one further GET, before it returns.
C1_RetryOnce ==
    \A t \in Tasks :
        (task[t].pc = "done" /\ task[t].first = "401")
            => (task[t].shakes = 1 /\ task[t].gets \in {1, 2})

\* C2  Protocol ordering: a resource GET goes to a host to which /auth and
\* then /attest were sent on this Handshaker, and an Attestation is POSTed
\* only after this handshake's /auth has answered with a Challenge.
C2_AuthAttestGet ==
    [][ /\ (call'.gets = call.gets + 1) =>
              LET h == IF call'.gets = 1 THEN call'.host1 ELSE call'.host2 IN
              h \in authed /\ h \in attested /\ h = kbs_host_url'
        /\ (hs'.pc = "attest" /\ hs.pc # "attest") =>
              (hs.pc = "evidence" /\ hs.challenged /\ hs.host \in authed')
        /\ attested' \subseteq authed' ]_vars

\* a retried GET is on the wire after the re-handshake
C2_Witness ==
    call.pc = "get" /\ call.gets = 2 /\ call.shakes = 1 /\ call.host2 \in attested

\* C3  The key pair and the host are recorded only by the step in which
\* /attest answers 200; a handshake that ends without a 200 returns an error
\* and leaves both fields as they were.
C3_AuthenticatedOnly200 ==
    [][ /\ (tee_key' # tee_key \/ kbs_host_url' # kbs_host_url) =>
              /\ hs.pc = "attest" /\ hs'.attest = "200"
              /\ tee_key' = hs.keypair /\ kbs_host_url' = hs.host
        /\ (hs.pc # "idle" /\ hs'.pc = "idle" /\ hs'.attest # "200") =>
              /\ hs'.res \notin {"ok", "none"}
              /\ tee_key' = tee_key /\ kbs_host_url' = kbs_host_url
              /\ call'.res = hs'.res ]_vars

\* /attest answered 401 to a later handshake: the earlier session is kept
C3_Witness ==
    /\ hs.pc = "idle" /\ hs.attest = "401" /\ hs.res = "unauthorized"
    /\ tee_key # NoKey /\ tee_key # hs.keypair

\* C4  The lock of the shared KBS client covers the whole GET / 401 /
\* re-handshake / retried-GET window: a task with a GET outstanding holds
\* the lock, at most one task has one, no handshake runs beside a task, and
\* when a task's GET is answered 401 the task keeps the lock and its
\* re-handshake is in flight, so that no other task's GET is issued before
\* that re-handshake and the retry have ended.
C4_Serialised ==
    /\ \A t \in Tasks : task[t].pc = "get" <=> kbsLock = t
    /\ \A t, u \in Tasks : (task[t].pc = "get" /\ task[u].pc = "get") => t = u
    /\ (\E t \in Tasks : task[t].pc # "idle") => hs.pc = "idle"

C4_Window ==
    \A t \in Tasks :
        (task[t].pc = "get" /\ task'[t] # task[t] /\ task'[t].first = "401")
            => (kbsLock' = t /\ hs'.pc # "idle")

C4_LockWindow == []C4_Serialised /\ [][C4_Window]_vars

\* a task waits for the lock while another task's GET is outstanding
C4_Witness ==
    \E t, u \in Tasks :
        /\ t # u /\ task[t].pc = "get" /\ kbsLock = t /\ task[u].pc = "lock"

\* after one task's GET was answered 401 and no handshake was made, the
\* other task's GET is outstanding on the same session
C4_WitnessNextGet ==
    \E t, u \in Tasks :
        /\ t # u /\ task[t].pc = "done" /\ task[t].first = "401"
        /\ task[t].shakes = 0 /\ task[u].pc = "get" /\ kbsLock = u

\* C5  A handshake that ends without a 200 on /attest leaves the Handshaker
\* unauthenticated (no host recorded), so that the next get must handshake.
C5_FailedHandshakeUnauthenticated ==
    (hs.pc = "idle" /\ hs.res \notin {"none", "ok"} /\ hs.attest # "200")
        => kbs_host_url = NoHost

\* C6  Eager authentication: a DataHub that is up has a recorded session with
\* its host from a handshake that returned Ok, a handshake that does not
\* return Ok leaves no DataHub, and only a DataHub that is up serves a task.
C6_EagerAuthentication ==
    /\ hub.status = "up" =>
          /\ hs.pc = "idle" /\ hs.res = "ok" /\ hs.attest = "200"
          /\ tee_key # NoKey /\ kbs_host_url = hub.host
          /\ hub.host \in authed /\ hub.host \in attested
    /\ (hs.pc = "idle" /\ hs.res \notin {"none", "ok"}) => hub.status = "failed"
    /\ \A t \in Tasks : task[t].pc # "idle" => hub.status = "up"

\* the first GET of a DataHub is on the wire
C6_Witness ==
    hub.status = "up" /\ \E t \in Tasks : task[t].pc = "get" /\ task[t].gets = 1

\* C7  A packet with top-level version and provider is handled as V2; with a
\* provider other than "kbs" it causes no KBS fetch.
C7_V2NeverMixed ==
    \A t \in Tasks :
        (task[t].req.op = "unwrap_key" /\ task[t].req.v2) =>
            /\ task[t].cont # "v1"
            /\ task[t].req.provider # "kbs" =>
                  (task[t].gets = 0 /\ task[t].pc \notin {"lock", "get"})

\* C8  After unseal_secret or V2 unwrap_key has handled a request for the KMS
\* provider P, the driver map has an entry for P.
C8_LazyDriverRegistry ==
    \A t \in Tasks :
        (/\ task[t].pc = "done"
         /\ task[t].req.op \in {"unseal_secret", "unwrap_key"}
         /\ task[t].req.op = "unwrap_key" => ParsePacket(task[t].req) = "V2"
         /\ task[t].req.provider \in Drivers)
            => task[t].req.provider \in DOMAIN kms_manager

\* C9  Routing of unseal_secret and of the V2 arm of unwrap_key: the backend
\* is the KBS client exactly when provider is "kbs", else the driver
\* registered under the provider; with neither, the call has failed without
\* a GET and without a driver call.
Routed(t) ==
    \/ task[t].req.op = "unseal_secret"
    \/ task[t].req.op = "unwrap_key" /\ ParsePacket(task[t].req) = "V2"

C9_ProviderRouting ==
    \A t \in Tasks : Routed(t) =>
        LET p == task[t].req.provider IN
        /\ task[t].via = "kbs" <=> p = "kbs"
        /\ (p # "kbs" /\ p \in DOMAIN kms_manager) => task[t].via = kms_manager[p]
        /\ (p # "kbs" /\ p \notin DOMAIN kms_manager) =>
              /\ task[t].pc = "done"
              /\ task[t].res \in {"err_failed", "err_no_driver"}
              /\ task[t].gets = 0 /\ task[t].log = <<>>
        /\ task[t].gets > 0 => p = "kbs"

\* "KBS" is not "kbs": one task is refused while the other one's secret,
\* provider "kbs", is being fetched from the KBS
C9_Witness ==
    \E t, u \in Tasks :
        /\ task[t].req.op = "unseal_secret" /\ task[t].req.provider = "KBS"
        /\ task[t].pc = "done" /\ task[t].res = "err_failed"
        /\ task[u].req.op = "unseal_secret" /\ task[u].req.provider = "kbs"
        /\ task[u].pc = "get"

\* C10  UnSealer::unseal: the operations a call makes are, in order, those of
\* its route and no others, all of them when it succeeds; the KBS fetch is of
\* ResourceUri(key_id / name), the driver call is about key_id / name.
IsPrefix(a, b) == Len(a) <= Len(b) /\ a = SubSeq(b, 1, Len(a))

RouteOps(type, via) ==
    IF type = "Envelope"
    THEN IF via = "kbs" THEN <<"kbs_get", "dek_unwrap", "data_decrypt">>
         ELSE <<"kms_decrypt", "data_decrypt">>
    ELSE IF via = "kbs" THEN <<"kbs_get">> ELSE <<"kms_get_secret">>

C10_UnsealDispatch ==
    \A t \in Tasks : task[t].req.op = "unseal" =>
        LET ops == RouteOps(task[t].req.type, task[t].via) IN
        /\ IsPrefix(task[t].log, ops)
        /\ task[t].res = "ok" => task[t].log = ops
        /\ task[t].pc = "get" => task[t].via = "kbs" /\ kbsLock = t
        /\ task[t].pc = "kms" => task[t].via \in Drivers /\ kmsLock[task[t].via] = t
        /\ task[t].log # <<>> =>
              task[t].path = IF task[t].via = "kbs"
                             THEN ResourceUri(task[t].req.id) ELSE task[t].req.id

\* an envelope unsealed by a driver beside a vault secret fetched from the KBS
C10_Witness ==
    \E t, u \in Tasks :
        /\ task[t].req.op = "unseal" /\ task[t].req.type = "Envelope"
        /\ task[t].via \in Drivers /\ task[t].res = "ok"
        /\ task[t].log = <<"kms_decrypt", "data_decrypt">>
        /\ task[u].req.op = "unseal" /\ task[u].req.type = "Vault"
        /\ task[u].via = "kbs" /\ task[u].res = "ok" /\ task[u].log = <<"kbs_get">>

\* C13  decrypt_response: whenever a symmetric key was unwrapped, its buffer
\* has been zeroised by the time the call returns, on every exit path.
C13_SymkeyZeroised ==
    (call.pc = "done" /\ call.op = "get" /\ call.symkey # "none")
        => call.symkey = "zeroized"

\* C14  decrypt_response: a response whose protected.alg is not "RSA1_5" ends
\* with the algorithm-mismatch error, and no RSA unwrap and no symmetric
\* decryption was made for it.
C14_AlgGate ==
    (call.pc = "done" /\ call.alg \notin {"none", "RSA1_5"})
        => (call.res = "err_alg" /\ call.ops = <<>> /\ call.symkey = "none")

\* a 200 with alg "RSA-OAEP" was rejected on an authenticated Handshaker
C14_Witness ==
    /\ call.pc = "done" /\ call.last = "200" /\ call.alg = "RSA-OAEP"
    /\ call.res = "err_alg" /\ tee_key # NoKey

\* C18  Status mapping of Handshaker::get and Client::get_resource: when a
\* GET is answered 404 the call ends with ResourceNotFound, when it is
\* answered with another status than 200, 401 and 404 it ends with
\* ServerError, or with the error of reading the response text when the
\* text cannot be read; the step starts no handshake, sends no GET and
\* leaves the session (key pair, host, handshake activation, hub) as it was.
SessionKept ==
    /\ tee_key' = tee_key /\ kbs_host_url' = kbs_host_url
    /\ hs' = hs /\ hub' = hub /\ keyGen' = keyGen
    /\ authed' = authed /\ attested' = attested

StatusError(status) == IF status = "404" THEN "not_found" ELSE "server_error"

StatusErrors(status) ==
    IF status = "404" THEN {"not_found"} ELSE {"server_error", "err_body"}

C18_StatusMapping ==
    [][/\ (call.pc = "get" /\ call' # call /\ call'.last \in {"404", "500"})
            => /\ call'.pc = "done"
               /\ call'.res \in StatusErrors(call'.last)
               /\ call'.gets = call.gets /\ call'.shakes = call.shakes
               /\ SessionKept
       /\ \A t \in Tasks :
            (task[t].pc = "get" /\ task'[t] # task[t]
                /\ task'[t].first \in {"404", "500"})
            => /\ task'[t].pc = "done"
               /\ task'[t].res \in StatusErrors(task'[t].first)
               /\ task'[t].gets = task[t].gets
               /\ task'[t].shakes = task[t].shakes
               /\ SessionKept]_vars

\* the statement as it stands: ServerError for every such status
C18_StatusMapping_stated ==
    [][/\ (call.pc = "get" /\ call' # call /\ call'.last \in {"404", "500"})
            => call'.res = StatusError(call'.last)
       /\ \A t \in Tasks :
            (task[t].pc = "get" /\ task'[t] # task[t]
                /\ task'[t].first \in {"404", "500"})
            => task'[t].res = StatusError(task'[t].first)]_vars

\* the GET that followed a re-handshake was answered 404
C18_Witness ==
    /\ call.pc = "done" /\ call.last = "404" /\ call.res = "not_found"
    /\ call.first = "401" /\ call.shakes = 1 /\ call.gets = 2

\* a GET answered 500 whose text could not be read
C18_WitnessUnread ==
    /\ call.pc = "done" /\ call.last = "500" /\ call.res = "err_body"
    /\ call.gets = 1 /\ call.shakes = 0

\* C19  Evidence binding: while the Attestation of a handshake is in flight,
\* the digest that was passed to the evidence agent is
\* base64_std(SHA-384(nonce, k_mod, k_exp)) for the nonce of this handshake's
\* Challenge and the components of the public key sent in the Attestation.
C19_EvidenceBinding ==
    hs.pc = "attest" =>
        /\ hs.nonce \in Nonces
        /\ hs.ehd = [b64std |-> [sha384 |-> <<[utf8 |-> hs.nonce],
                                               hs.sent.k_mod, hs.sent.k_exp>>]]

\* the second handshake of a Handshaker, with its second key pair, is at
\* /attest
C19_Witness ==
    /\ hs.pc = "attest" /\ hs.keypair = 2 /\ tee_key = 1
    /\ hs.nonce = "nonceB" /\ hs.sent = export_pubkey(2)

\* C15  V2 packet with provider "kbs": when iv or wrap_type is missing or
\* kid is no ResourceUri, unwrap_key ends with the error of the missing
\* field, without a KBS fetch and without a decryption.
C15_V2KbsValidation ==
    \A t \in Tasks :
        (/\ task[t].req.op = "unwrap_key" /\ task[t].req.v2
         /\ task[t].req.provider = "kbs"
         /\ (~task[t].req.iv \/ ~task[t].req.wt
                \/ ResourceUri(task[t].req.id) = NoPath))
        => /\ task[t].pc = "done"
           /\ task[t].res \in {"err_no_wrap_type", "err_no_iv", "err_uri"}
           /\ task[t].gets = 0 /\ task[t].log = <<>>

\* a V2 "kbs" packet with wrap_type and a ResourceUri kid, but no iv, was
\* rejected
C15_Witness ==
    \E t \in Tasks :
        /\ task[t].req.op = "unwrap_key" /\ task[t].req.v2
        /\ task[t].req.provider = "kbs" /\ task[t].req.wt /\ ~task[t].req.iv
        /\ ResourceUri(task[t].req.id) # NoPath
        /\ task[t].pc = "done" /\ task[t].res = "err_no_iv"

\* C16  unwrap_key_with on a backend that is not the packet's provider (a
\* driver of another name, or the KBS client for a provider other than
\* "kbs"): no driver decrypt and no KBS fetch is made and the call fails.
Mismatched(t) ==
    /\ task[t].req.op = "unwrap"
    /\ \/ task[t].via \in Drivers /\ task[t].via # task[t].req.provider
       \/ task[t].via = "kbs" /\ task[t].req.provider # "kbs"

NothingInvoked(t) ==
    /\ task[t].pc \in {"klock", "done"}
    /\ task[t].log = <<>> /\ task[t].gets = 0
    /\ task[t].pc = "done" => task[t].res # "ok"

\* (as stated) the failure is always the provider-mismatch error
C16_ProviderMismatch_stated ==
    \A t \in Tasks : Mismatched(t) =>
        /\ NothingInvoked(t)
        /\ task[t].pc = "done" => task[t].res = "err_provider"

\* (amended) the failure is the provider-mismatch error unless the driver
\* arm has already failed to base64-decode wrapped_data
C16_ProviderMismatch ==
    \A t \in Tasks : Mismatched(t) =>
        /\ NothingInvoked(t)
        /\ task[t].pc = "done" =>
              task[t].res = IF task[t].via \in Drivers
                               /\ "wrapped_b64" \in task[t].req.bad
                            THEN "err_wrapped_data" ELSE "err_provider"

\* a packet of provider "ali" was refused by driver "aws" once the task had
\* got the driver's lock
C16_Witness ==
    \E t \in Tasks :
        /\ task[t].req.op = "unwrap" /\ task[t].req.provider = "ali"
        /\ task[t].via = "aws" /\ task[t].req.bad = {}
        /\ task[t].pc = "done" /\ task[t].res = "err_provider"

\* C17  Envelope::unseal_with_kbs on an envelope whose annotations have no
\* "iv": the call never returns a plaintext and never decrypts the DEK.
C17_EnvelopeNeedsIv ==
    \A t \in Tasks :
        (/\ task[t].req.op = "unseal" /\ task[t].req.type = "Envelope"
         /\ task[t].via = "kbs" /\ ~task[t].req.annIv)
        => /\ task[t].res # "ok"
           /\ task[t].log \in {<<>>, <<"kbs_get">>}

\* the KEK was fetched and decrypted, and the missing "iv" ended the call
C17_Witness ==
    \E t \in Tasks :
        /\ task[t].req.op = "unseal" /\ task[t].req.type = "Envelope"
        /\ task[t].via = "kbs" /\ ~task[t].req.annIv
        /\ task[t].pc = "done" /\ task[t].first = "200"
        /\ task[t].res = "err_no_iv"

\* C20  At most one task is inside a call of a given KMS driver, and it holds
\* that driver's lock.
C20_DriverSerialised ==
    /\ \A t \in Tasks : task[t].pc = "kms" =>
            task[t].via \in Drivers /\ kmsLock[task[t].via] = t
    /\ \A t, u \in Tasks :
            (task[t].pc = "kms" /\ task[u].pc = "kms"
                /\ task[t].via = task[u].via) => t = u

\* calls of two different drivers are in progress
C20_Witness ==
    \E t, u \in Tasks :
        /\ task[t].pc = "kms" /\ task[t].via = "ali"
        /\ task[u].pc = "kms" /\ task[u].via = "aws"

\* a driver call and a KBS fetch are in progress
C20_DriverBesideKbs ==
    \E t, u \in Tasks :
        /\ task[t].pc = "kms" /\ task[t].via \in Drivers
        /\ task[u].pc = "get" /\ kbsLock = u

\* C11  Envelope round trip: when the KBS serves at unseal time the KEK it
\* served at seal time, unsealing the envelope that seal_with_kbs returned
\* gives back the sealed plaintext.
C11_EnvelopeRoundTrip ==
    \A t \in Tasks :
        (/\ task[t].req.op = "open" /\ task[t].pc = "done"
         /\ task[t].kek = task[t].req.sealKek)
        => (task[t].res = "ok" /\ task[t].plain = task[t].req.data)

\* "world" was sealed under kekB and unsealed again, the two IVs differing
C11_Witness ==
    \E t \in Tasks :
        /\ task[t].req.op = "open" /\ task[t].pc = "done"
        /\ task[t].kek = "kekB" /\ task[t].req.sealKek = "kekB"
        /\ task[t].out.iv # task[t].out.annotations["iv"]
        /\ task[t].res = "ok" /\ task[t].plain = "world"

\* C12  seal_with_kbs and seal_with_kms: when the call has returned, on
\* whatever path, the symmetric_key array has been zeroised.
C12_DekZeroisedInSeal ==
    \A t \in Tasks :
        (task[t].req.op = "seal" /\ task[t].pc = "done")
            => task[t].zero = "zeroized"

\* C21  Idempotence for the caller of unseal_secret / unwrap_key: two
\* requests with the same content that got the same answer from the KBS end
\* with the same result after the same operations, and a request, failed or
\* not, leaves the session, the client, the driver map and the locks as it
\* found them.
Answered(t) ==
    task[t].pc = "done" /\ task[t].req.op \in {"unseal_secret", "unwrap_key"}

C21_RetryIsSafe ==
    [][/\ \A t, u \in Tasks :
            (/\ Answered(t)' /\ Answered(u)'
             /\ task'[t].req = task'[u].req
             /\ task'[t].fetch = task'[u].fetch)
            => /\ task'[t].res = task'[u].res
               /\ task'[t].log = task'[u].log
               /\ task'[t].gets = task'[u].gets
       /\ (\E t \in Tasks : task[t].pc # "idle" /\ task'[t] # task[t])
            => /\ tee_key' = tee_key /\ kbs_host_url' = kbs_host_url
               /\ hub' = hub /\ kms_manager' = kms_manager
               /\ \A t \in Tasks : task'[t].pc = "done" => kbsLock' # t]_vars

\* the same secret was refused twice with 401, the session still in place
C21_Witness ==
    \E t, u \in Tasks :
        /\ t # u /\ Answered(t) /\ Answered(u)
        /\ task[t].req = task[u].req /\ task[t].req.op = "unseal_secret"
        /\ task[t].first = "401" /\ task[u].first = "401"
        /\ task[t].res = "unauthorized" /\ task[u].res = "unauthorized"
        /\ tee_key # NoKey

\* C23  Session-key consistency: every handshake that reaches the key
\* generation makes a key pair no handshake had before, the stored pair is
\* replaced only by the pair a 200 on /attest answered, and when a
\* handshake returns an error the stored key pair is not the pair that
\* handshake made.
C23_SessionKey ==
    [][/\ (hs.pc = "auth" /\ hs'.pc = "evidence")
            => hs'.keypair > keyGen /\ hs'.keypair # tee_key
       /\ tee_key' # tee_key
            => /\ hs.pc = "attest" /\ hs'.attest = "200"
               /\ tee_key' = hs.keypair
               /\ hs.sent = export_pubkey(tee_key')
       /\ (hs.pc # "idle" /\ hs'.pc = "idle" /\ hs'.res # "ok"
                /\ hs.keypair # NoKey)
            => tee_key' # hs.keypair]_vars

\* C25  Bounded work per fetch: a get sends at most two GETs and starts at
\* most one handshake, a failed re-handshake ends the call with the
\* handshake's error after the first GET only, and when the HTTP requests
\* are answered every get returns or is waiting for the attestation agent.
\* The HTTP client is built with a 60 s timeout, so every request the
\* Handshaker sends is answered or fails, and the body of an answer is read
\* or fails; the attestation agent is awaited without a timeout and the
\* owner is free not to call.
HttpAnswers ==
    \/ \E s \in Statuses : \E r \in BodiesOf(s) : GetResp(s, r)
    \/ \E ok \in BOOLEAN, keyOk \in BOOLEAN, nonce \in Nonces :
            HsAuthResp(ok, keyOk, nonce)
    \/ \E s \in Statuses : HsAttestResp(s)
    \/ \E bodyOk \in BOOLEAN : HsAttestBody(bodyOk)

SpecHsFair == SpecHs /\ WF_vars(HttpAnswers)

GetBounded ==
    call.op = "get" =>
        /\ call.gets <= 2 /\ call.shakes <= 1
        /\ call.shakes = 1 => call.first = "401"
        /\ call.gets = 2 => call.shakes = 1 /\ hs.res = "ok"
        /\ (call.pc = "done" /\ call.shakes = 1 /\ hs.res # "ok")
             => call.gets = 1 /\ call.res = hs.res

C25_BoundedFetch ==
    /\ []GetBounded
    /\ (call.op = "get" /\ call.pc # "done")
            ~> (call.pc = "done" \/ hs.pc = "evidence")

\* the statement without the proviso: every get returns
C25_AlwaysReturns ==
    (call.op = "get" /\ call.pc # "done") ~> (call.pc = "done")

\* both ends of the bound: a get that used its second GET, and before it
\* a key pair spent on a re-handshake that failed
C25_Witness ==
    /\ call.op = "get" /\ call.pc = "done"
    /\ call.gets = 2 /\ call.shakes = 1 /\ call.last = "401"
    /\ call.res = "unauthorized"

C25_WitnessFailedShake ==
    /\ call.op = "get" /\ call.pc = "done"
    /\ call.gets = 1 /\ call.shakes = 1 /\ call.res = "err_token"

\* C27  Structural rejection precedes remote contact: a request whose
\* identifier is no ResourceUri, and a V2 packet for the KBS without iv or
\* wrap_type, never has a GET sent for it, and the error it ends with is
\* reported with nothing fetched.
NoContact(t) ==
    /\ task[t].gets = 0 /\ task[t].first = "none" /\ task[t].fetch = "none"
    /\ \A i \in 1..Len(task[t].log) : task[t].log[i] # "kbs_get"

StructurallyBad(req) ==
    \/ ResourceUri(req.id) = NoPath
    \/ req.type = "packet" /\ req.v2 /\ (~req.iv \/ ~req.wt)

C27_RejectBeforeContact ==
    \A t \in Tasks :
        /\ (/\ task[t].pc # "idle"
            /\ task[t].via \in {"kbs", "none"}
            /\ IsKbs(task[t].req.provider) \/ task[t].req.type = "uri"
                    \/ ~task[t].req.v2
            /\ StructurallyBad(task[t].req)) => NoContact(t)
        /\ (/\ task[t].pc = "done"
            /\ \/ task[t].res \in {"err_uri", "err_parse"}
               \/ /\ task[t].req.type = "packet"
                  /\ task[t].res \in {"err_no_iv", "err_no_wrap_type"})
           => NoContact(t)

\* an envelope key id refused under the client's lock, nothing sent
C27_Witness ==
    \E t \in Tasks :
        /\ task[t].pc = "done" /\ task[t].cont = "envelope"
        /\ task[t].via = "kbs" /\ task[t].res = "err_uri"
        /\ task[t].gets = 0

C27_WitnessPacket ==
    \E t \in Tasks :
        /\ task[t].pc = "done" /\ task[t].req.type = "packet"
        /\ task[t].res = "err_no_iv" /\ task[t].gets = 0

\* C28  Frame of the hub operations: a step of unseal_secret, unwrap_key
\* or get_resource leaves the driver map, the drivers' locks' domain and
\* the hub's client (its status and the host it was built for) unchanged.
C28_HubFrame ==
    [][task' # task =>
          /\ kms_manager' = kms_manager
          /\ DOMAIN kmsLock' = DOMAIN kmsLock
          /\ hub' = hub]_vars

\* a secret for a KMS provider was served by the hub, the map still empty
C28_Witness ==
    \E t \in Tasks :
        /\ task[t].pc = "done" /\ task[t].req.op = "unseal_secret"
        /\ task[t].req.provider = "ali"
        /\ kms_manager = EmptyMap /\ hub.status = "up"

\* C26  No lock nesting and no lock leak: a task holds at most one of the
\* client's lock and the drivers' locks, and only while its remote call is
\* outstanding; a task that is idle, waiting or has returned holds none;
\* the local decryptions are logged by a task that no longer holds the
\* client's lock; and a waiting task can take a lock as soon as it is free,
\* while a lock that is not free is held by a task whose remote call is
\* outstanding.
LocksHeld(t) ==
    (IF kbsLock = t THEN {"kbs"} ELSE {})
        \cup {d \in DOMAIN kmsLock : kmsLock[d] = t}

LocalCrypto == {"decrypt", "dek_unwrap", "data_decrypt"}

C26_NoNestingNoLeak ==
    \A t \in Tasks :
        /\ Cardinality(LocksHeld(t)) <= 1
        /\ LocksHeld(t) # {} <=> task[t].pc \in {"get", "kms"}
        /\ task[t].pc = "get" => LocksHeld(t) = {"kbs"}
        /\ task[t].pc = "kms" => LocksHeld(t) = {task[t].via}
        /\ (\E i \in 1..Len(task[t].log) : task[t].log[i] \in LocalCrypto)
              => LocksHeld(t) = {}
        /\ task[t].pc = "lock" =>
              \/ kbsLock = 0 /\ ENABLED KbsAcquire(t)
              \/ kbsLock \in Tasks \ {t} /\ task[kbsLock].pc = "get"
        /\ task[t].pc = "klock" =>
              LET h == kmsLock[task[t].via] IN
              \/ h = 0 /\ ENABLED KmsAcquire(t)
              \/ h \in Tasks \ {t} /\ task[h].pc = "kms"

\* a driver call failed, its guard was dropped, and the task that waited
\* for the driver is now inside it
C26_Witness ==
    \E t, u \in Tasks :
        /\ t # u /\ task[t].pc = "done" /\ task[t].res = "err_kms"
        /\ task[u].pc = "kms" /\ task[u].via = task[t].via
        /\ kmsLock[task[u].via] = u

\* an envelope was opened with the KEK while another task already holds
\* the client's lock
C26_WitnessDecryptOutside ==
    \E t, u \in Tasks :
        /\ t # u /\ task[t].pc = "done" /\ task[t].cont = "envelope"
        /\ task[t].log = <<"kbs_get", "dek_unwrap", "data_decrypt">>
        /\ task[u].pc = "get" /\ kbsLock = u

\* C30  Step order of Envelope::unseal_with_kbs: key_id parsing, KEK
\* fetch, annotations["iv"] lookup, DEK unwrap, data decryption, stopping at
\* the first step that fails: a key_id that does not parse sends nothing, a
\* failed fetch is the result and nothing is decrypted, a missing
\* annotations["iv"] is reported after a successful fetch and before the DEK
\* is touched, and the data is decrypted only with an unwrapped DEK.
KbsEnvelope(t) ==
    /\ task[t].req.op = "unseal" /\ task[t].req.type = "Envelope"
    /\ task[t].via = "kbs" /\ task[t].cont = "envelope"

C30_EnvelopeStepOrder ==
    \A t \in Tasks : KbsEnvelope(t) =>
        LET r == task[t].req
            full == <<"kbs_get", "dek_unwrap", "data_decrypt">> IN
        /\ IsPrefix(task[t].log, full)
        /\ ResourceUri(r.id) = NoPath => task[t].log = <<>>
        /\ task[t].pc = "done" =>
            CASE task[t].fetch = "none" ->
                    /\ task[t].res = "err_uri" /\ task[t].log = <<>>
                    /\ task[t].gets = 0 /\ ResourceUri(r.id) = NoPath
              [] task[t].fetch # "ok" ->
                    task[t].res = task[t].fetch /\ task[t].log = <<"kbs_get">>
              [] ~r.annIv ->
                    task[t].res = "err_no_iv" /\ task[t].log = <<"kbs_get">>
              [] "dek" \in r.bad ->
                    /\ task[t].res = "err_decrypt"
                    /\ task[t].log = <<"kbs_get", "dek_unwrap">>
              [] OTHER ->
                    /\ task[t].log = full
                    /\ task[t].res = IF "decrypt" \in r.bad
                                     THEN "err_decrypt" ELSE "ok"

\* the envelope lacks annotations["iv"] and its DEK would not unwrap: the
\* KEK was fetched and the missing "iv" was reported, the DEK untouched
C30_Witness ==
    \E t \in Tasks :
        /\ KbsEnvelope(t) /\ task[t].pc = "done"
        /\ ~task[t].req.annIv /\ "dek" \in task[t].req.bad
        /\ task[t].fetch = "ok" /\ task[t].gets = 1
        /\ task[t].res = "err_no_iv" /\ task[t].log = <<"kbs_get">>

\* the fetch failed and nothing was decrypted
C30_WitnessFetchFailed ==
    \E t \in Tasks :
        /\ KbsEnvelope(t) /\ task[t].pc = "done" /\ task[t].req.annIv
        /\ task[t].first = "404" /\ task[t].res = "not_found"
        /\ task[t].log = <<"kbs_get">>

\* C29  V1 and V2-KBS unwrap are the same procedure: on the same kid,
\* wrapped_data, iv and wrap_type the two fetch the same resource, and with
\* the same answer from the KBS they make the same operations and end with
\* the same result, which is the error of the first failing step in the
\* order KEK fetch, iv decode, wrap-type parse, wrapped-data decode, decrypt.
SameValues(a, b) == a.id = b.id /\ a.bad = b.bad /\ a.iv /\ b.iv /\ a.wt /\ b.wt

FirstFailure(fetch, bad) ==
    IF fetch # "ok" THEN fetch
    ELSE IF "iv_b64" \in bad THEN "err_iv"
    ELSE IF "wrap_type" \in bad THEN "err_wrap_type"
    ELSE IF "wrapped_b64" \in bad THEN "err_wrapped_data"
    ELSE IF "decrypt" \in bad THEN "err_decrypt"
    ELSE "ok"

C29_V1EqualsV2Kbs ==
    \A t, u \in Tasks :
        (/\ task[t].cont = "v1" /\ task[u].cont = "v2" /\ task[u].via = "kbs"
         /\ SameValues(task[t].req, task[u].req))
        => /\ (task[t].gets > 0 /\ task[u].gets > 0)
                => task[t].path = task[u].path
           /\ (/\ task[t].pc = "done" /\ task[u].pc = "done"
               /\ task[t].fetch = task[u].fetch)
                => /\ task[t].res = task[u].res
                   /\ task[t].log = task[u].log
                   /\ task[t].gets = 1 /\ task[u].gets = 1
                   /\ task[t].res = FirstFailure(task[t].fetch, task[t].req.bad)

\* the same values with an iv that is not base64 and an unknown wrap type,
\* as V1 and as V2: both fetched the KEK and both fail on the iv
C29_Witness ==
    \E t, u \in Tasks :
        /\ task[t].cont = "v1" /\ task[u].cont = "v2" /\ task[u].via = "kbs"
        /\ SameValues(task[t].req, task[u].req)
        /\ task[t].req.bad = {"iv_b64", "wrap_type"}
        /\ task[t].pc = "done" /\ task[u].pc = "done"
        /\ task[t].fetch = "ok" /\ task[u].fetch = "ok"
        /\ task[t].res = "err_iv" /\ task[u].res = "err_iv"

\* the same values, whole, as V1 and as V2: both return the key
C29_WitnessOk ==
    \E t, u \in Tasks :
        /\ task[t].cont = "v1" /\ task[u].cont = "v2"
        /\ SameValues(task[t].req, task[u].req)
        /\ task[t].res = "ok" /\ task[u].res = "ok"
        /\ task[t].log = <<"kbs_get", "decrypt">> /\ task[u].log = task[t].log

\* C22  KeyProviderInput::valid accepts exactly the inputs with op
\* "keyunwrap", no or an empty ec, no or an empty optsdata, a dc with
\* parameters and an annotation that is not empty; "keywrap" is
\* UnsupportedOp, "" is MissingOp and any other op InvalidOp, whatever the
\* parameters are; and without a dc the error names the dc, with or without
\* an annotation.
Checked(t) ==
    task[t].pc = "done" /\ task[t].cont = "valid" /\ task[t].req.form = "json"

HasEc(in) ==
    in.ec.some /\ (in.ec.v.parameters # {} \/ in.ec.v.decrypt_config.parameters # {})
HasOptsdata(in) == in.optsdata.some /\ in.optsdata.v # ""
HasDc(in) == in.dc.some /\ in.dc.v.parameters # {}
HasAnnotation(in) == in.annotation.some /\ in.annotation.v # ""

C22_InputValidation ==
    \A t \in Tasks : Checked(t) =>
        LET in == task[t].req.input
            res == task[t].res IN
        /\ res = "Ok" <=> /\ in.op = "keyunwrap"
                          /\ ~HasEc(in) /\ ~HasOptsdata(in)
                          /\ HasDc(in) /\ HasAnnotation(in)
        /\ in.op = "keywrap" => res = "UnsupportedOp"
        /\ in.op = "" => res = "MissingOp"
        /\ in.op \notin {"keywrap", "keyunwrap", ""} => res = "InvalidOp"
        /\ (in.op = "keyunwrap" /\ ~HasEc(in) /\ ~HasOptsdata(in)) =>
              /\ ~HasDc(in) => res = "UnwrapParamsNoDc"
              /\ (HasDc(in) /\ ~HasAnnotation(in))
                    => res = "UnwrapParamsNoAnnotation"

\* keyunwrap with neither dc nor annotation: the dc is the one reported
C22_Witness ==
    \E t \in Tasks :
        /\ Checked(t) /\ task[t].req.input.op = "keyunwrap"
        /\ task[t].req.input.dc = None /\ task[t].req.input.annotation = None
        /\ task[t].res = "UnwrapParamsNoDc"

\* keywrap with an ec: the operator is the one reported
C22_WitnessOpFirst ==
    \E t \in Tasks :
        /\ Checked(t) /\ task[t].req.input.op = "keywrap"
        /\ HasEc(task[t].req.input)
        /\ task[t].res = "UnsupportedOp"

\* C24  Storage clients are created lazily, once per type: the map holds
\* one client for each type it has, as many as were ever built; an entry is
\* never replaced or removed; a call for an unknown provider name or one
\* whose client cannot be built leaves the map as it was; and a call uses
\* the client the map holds for its type.
C24_LazyClients ==
    [][LET old == hub.storage_mgr.clients
           new == hub'.storage_mgr.clients IN
       /\ DOMAIN new \subseteq StorageTypes
       /\ hub'.storage_mgr.made = Cardinality(DOMAIN new)
       /\ \A ty \in DOMAIN old : ty \in DOMAIN new /\ new[ty] = old[ty]
       /\ \A t \in Tasks :
            /\ (task[t].pc = "idle" /\ task'[t].pc = "done"
                    /\ task'[t].req.op = "get_blob")
                 => /\ new = old
                    /\ task'[t].res = IF task'[t].req.provider \in StorageTypes
                                      THEN "err_client" ELSE "err_type"
            /\ (task[t].pc = "idle" /\ task'[t].pc = "blob")
                 => /\ task'[t].req.provider \in DOMAIN new
                    /\ task'[t].client = new[task'[t].req.provider]
                    /\ DOMAIN new = DOMAIN old \cup {task'[t].req.provider}
       /\ new # old => \E t \in Tasks : task[t].pc = "idle" /\ task'[t].pc = "blob"]_vars

\* a call built the client and has returned; a later call for another
\* path uses the client the first one stored, and no second one was built
C24_Witness ==
    \E t, u \in Tasks :
        /\ t # u
        /\ task[t].pc = "done" /\ task[t].req.op = "get_blob"
        /\ task[t].res \in {"ok", "err_blob"} /\ task[t].client = 1
        /\ task[u].pc = "blob" /\ task[u].client = 1
        /\ task[u].req.id # task[t].req.id
        /\ hub.storage_mgr.made = 1

\* an unknown provider name and a failed construction, the map still empty
C24_WitnessUnchanged ==
    \E t, u \in Tasks :
        /\ task[t].pc = "done" /\ task[t].res = "err_type"
        /\ task[t].req.provider = "alioss"
        /\ task[u].pc = "done" /\ task[u].res = "err_client"
        /\ hub.storage_mgr = NoClients

====
